---- MODULE Spec2Model ----
(***************************************************************************)
(* Model of the wave-project file watcher and file record cache.           *)
(*                                                                         *)
(*   filedb/file_cache.py    FileContextMSD, FileCacheLinkedList           *)
(*   filedb/file_manager.py  FileCacheManager (the reconciler)             *)
(*   watcher/bricks.py       ObservedWatch, SkipRepeatsQueue, BaseThread   *)
(*   watcher/observers.py    EventDispatcher, BaseObserver                 *)
(*   watcher/emitter.py      EventEmitter, WindowsApiEmitter               *)
(*   watcher/events.py       FileSystemEvent and its equality              *)
(*                                                                         *)
(* The specifications of the module: CacheSpec (cache + reconciler, one     *)
(* call per step), LockSpec (the cache under two threads, one statement    *)
(* per step), WatchSpec (queue + registry + dispatcher + emitters) and     *)
(* QueueSpec (the event queue alone).                                      *)
(***************************************************************************)
EXTENDS Integers, Sequences, FiniteSets, TLC

VARIABLES
    \* ---- file record cache (FileCacheLinkedList) ----
    ctx,          \* arena of FileContextMSD objects: <<[path, ts]>>, id = index
    nxt,          \* node id -> the object's .next
    prv,          \* node id -> the object's .prev
    kv_store,     \* self._kv_store: str key -> node id
    last,         \* the last cache / reconciler call: op, arguments, outcome
    pre,          \* the cache as it was before that call
    hist,         \* the records handed to insert() so far, in call order
    pure,         \* TRUE while only insert() has been called on the cache
    manager,      \* the FileCacheManager thread: "new", "running", "dead"
    \* ---- event queue (SkipRepeatsQueue) ----
    event_queue,       \* the items in the queue, oldest first
    last_item,         \* self._last_item
    unfinished_tasks,  \* Queue.unfinished_tasks
    nput,              \* items built by queue_event so far; the newest's id
    lastput,           \* the last put: its item, the queued item standing for
                       \* it, whether it repeated the put before it
    \* ---- observer registry (BaseObserver) ----
    watches,           \* self._watches
    handlers,          \* self._handlers: watch -> set of handlers
    emitters,          \* self._emitters: set of emitter ids
    emitter_for_watch, \* self._emitter_for_watch: watch -> emitter id
    \* ---- threads ----
    em,           \* emitter objects: watch, stopped flag, thread, handle, pc
    obs,          \* the observer thread and its position in dispatch_events
    lock,         \* owner of BaseObserver._lock: "free", "user", "disp"
    user,         \* the caller of the observer's API and its position
    call,         \* the last call on the observer's API, by whom, outcome
    \* ---- what was dispatched ----
    delivered,    \* handler.dispatch calls so far: item id, handler, watch
    stale,        \* items that were queued for a watch when unschedule returned
    orphan,       \* the stale items whose watch got no handler since
    \* ---- the cache under two threads ----
    cache_lock,   \* owner of FileCacheLinkedList._lock: "free", "reconciler",
                  \* "client"
    reconciler,   \* the thread that changes the cache, and its position
    client,       \* a thread that queries the cache, its position and result
    \* ---- one emitter thread in queue_events (WindowsApiEmitter) ----
    winapi,       \* the frame of queue_events: the records of the batch still
                  \* to process, the record in process, what os.path.isdir
                  \* and os.walk gave for it, the events it still has to
                  \* queue, last_renamed_src_path; the reads so far, and
                  \* how the last one ended
    reported,     \* the records read_events returned so far, with their batch
    emitted       \* the queue_event calls so far, with the record they are for

cacheVars == <<ctx, nxt, prv, kv_store, last, pre, hist, pure, manager>>
watchVars == <<event_queue, last_item, unfinished_tasks, nput, lastput, watches,
               handlers, emitters, emitter_for_watch, em, obs, lock, user, call,
               delivered, stale, orphan>>
lockVars == <<cache_lock, reconciler, client>>
emitVars == <<winapi, reported, emitted>>
vars == <<cacheVars, watchVars, lockVars, emitVars>>

----------------------------------------------------------------------------
(* Bounds of the model *)

\* number of FileContext objects ever allocated
MaxCtx == 3

----------------------------------------------------------------------------
(* Strings are sequences of tokens: single characters, and digit groups    *)
(* ("20230427", "100005") standing for the digits of a date or a time.     *)

SEP == "/"
DateTokens == {"20230427"}
TimeTokens == {"100000", "100002", "100005"}

\* seconds since the model's epoch of a parsed date / time token
DateVal(d) == 0
TimeVal(t) == CASE t = "100000" -> 36000
                [] t = "100002" -> 36002
                [] t = "100005" -> 36005
                [] OTHER -> 0

\* str.lower() on one token
LowerTok(c) == CASE c = "M" -> "m" [] c = "S" -> "s" [] c = "D" -> "d"
                 [] c = "T" -> "t" [] c = "W" -> "w" [] c = "A" -> "a"
                 [] OTHER -> c
Lower(s) == [i \in 1..Len(s) |-> LowerTok(s[i])]

\* s[i:j] with Python's 0-based half-open slice turned into 1-based bounds
Slice(s, a, b) == IF a > b THEN <<>> ELSE SubSeq(s, a, b)

\* str.rfind / str.find as 1-based indexes, 0 when absent
RFind(s, c) ==
    LET I == {i \in 1..Len(s) : s[i] = c}
    IN IF I = {} THEN 0 ELSE CHOOSE i \in I : \A j \in I : j <= i
Find(s, c) ==
    LET I == {i \in 1..Len(s) : s[i] = c}
    IN IF I = {} THEN 0 ELSE CHOOSE i \in I : \A j \in I : i <= j

\* str.replace(c, "")
RECURSIVE Remove(_, _)
Remove(s, c) ==
    IF s = <<>> THEN <<>>
    ELSE IF Head(s) = c THEN Remove(Tail(s), c)
    ELSE <<Head(s)>> \o Remove(Tail(s), c)

\* os.path.isabs
isabs(p) == Len(p) >= 1 /\ p[1] = SEP

\* os.path.split(p)[-1]
basename(p) == Slice(p, RFind(p, SEP) + 1, Len(p))

\* os.path.splitext(p): <<root, ext>>; a name made of leading dots only
\* has no extension
splitext(p) ==
    LET sepIndex == RFind(p, SEP)
        dotIndex == RFind(p, ".")
    IN IF dotIndex > sepIndex
          /\ \E i \in (sepIndex + 1)..(dotIndex - 1) : p[i] # "."
       THEN <<Slice(p, 1, dotIndex - 1), Slice(p, dotIndex, Len(p))>>
       ELSE <<p, <<>> >>

\* s.split("+")[0]
BeforePlus(s) ==
    IF Find(s, "+") = 0 THEN s ELSE Slice(s, 1, Find(s, "+") - 1)

\* s.split("_", maxsplit=2)
split_maxsplit2(s) ==
    LET i1 == Find(s, "_") IN
    IF i1 = 0 THEN <<s>>
    ELSE LET rest == Slice(s, i1 + 1, Len(s))
             i2 == Find(rest, "_")
         IN IF i2 = 0 THEN <<Slice(s, 1, i1 - 1), rest>>
            ELSE <<Slice(s, 1, i1 - 1), Slice(rest, 1, i2 - 1),
                   Slice(rest, i2 + 1, Len(rest))>>

\* datetime.strptime(f, "%Y%m%d_%H%M%S"): -1 stands for ValueError
NoTs == -1
strptime(f) ==
    IF Len(f) = 3 /\ f[1] \in DateTokens /\ f[2] = "_" /\ f[3] \in TimeTokens
    THEN DateVal(f[1]) + TimeVal(f[3])
    ELSE NoTs

\* timedelta(hours=8), in seconds
HoursOffset == 8
SecondsPerHour == 3600
FileType == <<"m", "s", "d">>

\* FileContextMSD.verify_file: the time stamp, or NoTs when it returns False
verify_file(abs_path) ==
    IF Len(abs_path) = 0 THEN NoTs
    ELSE LET ext == Remove(splitext(abs_path)[2], ".") IN
    IF Lower(ext) # FileType THEN NoTs
    ELSE LET filename == basename(abs_path) IN
    IF Len(filename) = 0 THEN NoTs
    ELSE LET noext0 == splitext(filename)[1] IN
    IF Len(noext0) = 0 THEN NoTs
    ELSE LET filename_noext == BeforePlus(noext0)
             factors == split_maxsplit2(filename_noext)
         IN IF Len(factors) < 3 THEN NoTs
            ELSE IF strptime(factors[3]) = NoTs THEN NoTs
            ELSE strptime(factors[3]) + HoursOffset * SecondsPerHour

----------------------------------------------------------------------------
(* Keys.  FileContextMSD.key is a str (strftime), compare_key takes a      *)
(* datetime: the two kinds of value are kept apart.                        *)

StrKey(t) == [kind |-> "str", v |-> t]
DtKey(t) == [kind |-> "datetime", v |-> t]
NoKey == [kind |-> "None", v |-> 0]

\* datetime.strftime('%Y-%m-%d %H:%M:%S'): one string per second
strftime(t) == StrKey(t)

----------------------------------------------------------------------------
(* The linked list.  A cache state is a record S = [ctx, nxt, prv, kv].     *)

HEAD == -1      \* self._head, a sentinel
TAIL == -2      \* self._tail, a sentinel
NONE == 0       \* Python's None as a node reference

Nodes == {HEAD, TAIL} \cup (1..MaxCtx)

\* the outcome "the call never returns" of a loop that makes no progress
HANG == "hang"
\* steps after which a loop that has not ended is known to repeat itself
Fuel == MaxCtx + 3

\* FileCacheLinkedList.__init__
EmptyCache ==
    [ctx |-> <<>>,
     nxt |-> [n \in Nodes |-> IF n = HEAD THEN TAIL ELSE NONE],
     prv |-> [n \in Nodes |-> IF n = TAIL THEN HEAD ELSE NONE],
     kv  |-> <<>>]

\* a dict as a function; d[k] = v and del d[k]
DictSet(d, k, v) == [x \in (DOMAIN d) \cup {k} |-> IF x = k THEN v ELSE d[x]]
DictDel(d, k) == [x \in (DOMAIN d) \ {k} |-> d[x]]

\* FileContextMSD._time_stamp / _abs_path of a node (None on a sentinel)
TsOf(S, n) == IF n \in 1..Len(S.ctx) THEN S.ctx[n].ts ELSE NoTs
PathOf(S, n) == IF n \in 1..Len(S.ctx) THEN S.ctx[n].path ELSE <<>>

\* FileContextMSD.key: None.strftime raises AttributeError
key(S, n) ==
    IF TsOf(S, n) = NoTs THEN [exc |-> "AttributeError", k |-> NoKey]
    ELSE [exc |-> "none", k |-> strftime(TsOf(S, n))]

\* FileContextMSD.compare_key(other_key)
compare_key(S, n, other_key) ==
    IF other_key.kind # "datetime" THEN [exc |-> "TypeError", v |-> 0]
    ELSE IF TsOf(S, n) = NoTs THEN [exc |-> "TypeError", v |-> 0]
    ELSE [exc |-> "none", v |-> TsOf(S, n) - other_key.v]

\* the one element of a singleton set; {e : x \in {v}} computes v once and
\* names it x, the way a Python local holds the result of a call
The(s) == CHOOSE x \in s : TRUE

\* FileContextMSD.new_file_context: the cache state with the object
\* allocated, and the object, which is NONE when verify_file fails
new_file_context(S, abs_path) ==
    The({IF ts = NoTs THEN [S |-> S, fc |-> NONE]
         ELSE [S  |-> [S EXCEPT !.ctx = Append(@, [path |-> abs_path, ts |-> ts])],
               fc |-> Len(S.ctx) + 1]
         : ts \in {verify_file(abs_path)}})

\* FileContextMSD(abs_path): an object that was never verified
raw_file_context(S, abs_path) ==
    [S  |-> [S EXCEPT !.ctx = Append(@, [path |-> abs_path, ts |-> NoTs])],
     fc |-> Len(S.ctx) + 1]

\* _kv_store_push_item
kv_store_push_item(S, fc) ==
    The({IF k.exc # "none" THEN [S |-> S, exc |-> k.exc]
         ELSE IF k.k \in DOMAIN S.kv THEN [S |-> S, exc |-> "none"]
         ELSE [S |-> [S EXCEPT !.kv = DictSet(@, k.k, fc)], exc |-> "none"]
         : k \in {key(S, fc)}})

\* _kv_store_pop_item
kv_store_pop_item(S, fc) ==
    The({IF k.exc # "none" THEN [S |-> S, exc |-> k.exc]
         ELSE IF k.k \in DOMAIN S.kv
              THEN [S |-> [S EXCEPT !.kv = DictDel(@, k.k)], exc |-> "none"]
              ELSE [S |-> S, exc |-> "none"]
         : k \in {key(S, fc)}})

\* the while loop of insert: where the scan stops, or the exception
RECURSIVE insert_scan(_, _, _, _, _)
insert_scan(S, fc, prev, ptr, fuel) ==
    IF ptr = TAIL THEN [exc |-> "none", prev |-> prev, ptr |-> ptr]
    ELSE IF ptr = NONE THEN [exc |-> "AttributeError", prev |-> prev, ptr |-> ptr]
    ELSE IF fuel = 0 THEN [exc |-> HANG, prev |-> prev, ptr |-> ptr]
    ELSE The({IF k.exc # "none" THEN [exc |-> k.exc, prev |-> prev, ptr |-> ptr]
              ELSE The({IF c.exc # "none"
                        THEN [exc |-> c.exc, prev |-> prev, ptr |-> ptr]
                        ELSE IF c.v < 0
                             THEN [exc |-> "none", prev |-> prev, ptr |-> ptr]
                             ELSE insert_scan(S, fc, ptr, S.nxt[ptr], fuel - 1)
                        : c \in {compare_key(S, fc, k.k)}})
              : k \in {key(S, ptr)}})

\* the four pointer assignments of insert, in the code's order
insert_link(S, fc, prev, ptr) ==
    [S EXCEPT !.prv[fc] = prev, !.nxt[fc] = ptr, !.nxt[prev] = fc, !.prv[ptr] = fc]

\* FileCacheLinkedList.insert
insert(S, fc) ==
    IF fc = NONE THEN [S |-> S, exc |-> "ValueError"]
    ELSE The({IF pos.exc # "none" THEN [S |-> S, exc |-> pos.exc]
              ELSE The({kv_store_push_item(S1, fc)
                        : S1 \in {insert_link(S, fc, pos.prev, pos.ptr)}})
              : pos \in {insert_scan(S, fc, HEAD, S.nxt[HEAD], Fuel)}})

\* FileCacheLinkedList.delete
delete(S, fc) ==
    IF fc = NONE THEN [S |-> S, exc |-> "ValueError"]
    ELSE IF S.prv[fc] = NONE THEN [S |-> S, exc |-> "AttributeError"]
    ELSE The({IF S1.nxt[fc] = NONE THEN [S |-> S1, exc |-> "AttributeError"]
              ELSE The({kv_store_pop_item(S2, fc)
                        : S2 \in {[S1 EXCEPT !.prv[S1.nxt[fc]] = S1.prv[fc],
                                             !.nxt[fc] = NONE,
                                             !.prv[fc] = NONE]}})
              : S1 \in {[S EXCEPT !.nxt[S.prv[fc]] = S.nxt[fc]]}})

\* the pointer assignments of replace's loop body, in the code's order
replace_link(S, ptr, new) ==
    The({IF S1.prv[ptr] = NONE THEN [S |-> S1, exc |-> "AttributeError"]
         ELSE The({IF S2.nxt[ptr] = NONE THEN [S |-> S2, exc |-> "AttributeError"]
                   ELSE [S   |-> [S2 EXCEPT !.prv[S2.nxt[ptr]] = new,
                                            !.nxt[ptr] = NONE,
                                            !.prv[ptr] = NONE],
                         exc |-> "none"]
                   : S2 \in {[S1 EXCEPT !.nxt[S1.prv[ptr]] = new]}})
         : S1 \in {[S EXCEPT !.prv[new] = S.prv[ptr], !.nxt[new] = S.nxt[ptr]]}})

\* one pass of the body of replace's loop, taken when ptr == old_file_context
replace_body(S, ptr, new) ==
    The({IF a.exc # "none" THEN a
         ELSE The({IF b.exc # "none" THEN b ELSE replace_link(b.S, ptr, new)
                   : b \in {kv_store_push_item(a.S, new)}})
         : a \in {kv_store_pop_item(S, ptr)}})

\* the while loop of replace: ptr is never advanced
RECURSIVE replace_loop(_, _, _, _, _)
replace_loop(S, old, new, ptr, fuel) ==
    IF ptr = TAIL THEN [S |-> S, exc |-> "none"]
    ELSE IF fuel = 0 THEN [S |-> S, exc |-> HANG]
    ELSE IF ptr = old
         THEN The({IF r.exc # "none" THEN r
                   ELSE replace_loop(r.S, old, new, ptr, fuel - 1)
                   : r \in {replace_body(S, ptr, new)}})
         ELSE replace_loop(S, old, new, ptr, fuel - 1)

\* FileCacheLinkedList.replace
replace(S, old, new) ==
    IF old = NONE \/ new = NONE THEN [S |-> S, exc |-> "ValueError"]
    ELSE replace_loop(S, old, new, S.nxt[HEAD], Fuel)

----------------------------------------------------------------------------
(* Queries *)

\* None as a file_path argument, None as a re_pattern argument
NoPath == <<"None">>
NoPattern == [none |-> TRUE, anchored |-> FALSE, lit |-> <<>>]
\* re.compile("^" + p) and re.compile(p) for a literal p
Anchored(p) == [none |-> FALSE, anchored |-> TRUE, lit |-> p]
Unanchored(p) == [none |-> FALSE, anchored |-> FALSE, lit |-> p]

\* the value of re.IGNORECASE, which query_by_path hands to Pattern.match as
\* its second positional argument, pos
RE_IGNORECASE == 2

\* Pattern.match(string, pos): the match starts at index pos; '^' matches
\* only at the real beginning of the string; '.' matches any character
re_match(pat, string, pos) ==
    LET start == IF pos > Len(string) THEN Len(string) ELSE pos IN
    /\ pat.anchored => start = 0
    /\ Len(string) - start >= Len(pat.lit)
    /\ \A i \in 1..Len(pat.lit) :
          pat.lit[i] = "." \/ pat.lit[i] = string[start + i]

\* the while loop of query_by_path
RECURSIVE path_scan(_, _, _, _, _, _, _)
path_scan(S, file_path, regex, re_pattern, ptr, res, fuel) ==
    IF ptr = TAIL THEN [exc |-> "none", res |-> res]
    ELSE IF ptr = NONE THEN [exc |-> "AttributeError", res |-> <<>>]
    ELSE IF fuel = 0 THEN [exc |-> HANG, res |-> <<>>]
    ELSE LET hit == IF regex
                    THEN re_match(re_pattern, PathOf(S, ptr), RE_IGNORECASE)
                    ELSE PathOf(S, ptr) = file_path
         IN path_scan(S, file_path, regex, re_pattern, S.nxt[ptr],
                      IF hit THEN Append(res, ptr) ELSE res, fuel - 1)

\* FileCacheLinkedList.query_by_path
query_by_path(S, file_path, regex, re_pattern) ==
    IF file_path = NoPath THEN [exc |-> "TypeError", res |-> <<>>]
    ELSE IF ~isabs(file_path) THEN [exc |-> "ValueError", res |-> <<>>]
    ELSE IF regex /\ re_pattern.none THEN [exc |-> "ValueError", res |-> <<>>]
    ELSE path_scan(S, file_path, regex, re_pattern, S.nxt[HEAD], <<>>, Fuel)

\* the first while loop of query_by_key_range: the first node >= from_key
RECURSIVE range_seek(_, _, _, _)
range_seek(S, from_key, ptr, fuel) ==
    IF ptr = TAIL THEN [exc |-> "none", ptr |-> ptr]
    ELSE IF ptr = NONE THEN [exc |-> "AttributeError", ptr |-> ptr]
    ELSE IF fuel = 0 THEN [exc |-> HANG, ptr |-> ptr]
    ELSE LET c == compare_key(S, ptr, from_key) IN
         IF c.exc # "none" THEN [exc |-> c.exc, ptr |-> ptr]
         ELSE IF c.v >= 0 THEN [exc |-> "none", ptr |-> ptr]
         ELSE range_seek(S, from_key, S.nxt[ptr], fuel - 1)

\* the second while loop of query_by_key_range: collect while <= to_key
RECURSIVE range_collect(_, _, _, _, _)
range_collect(S, to_key, ptr, res, fuel) ==
    IF ptr = TAIL THEN [exc |-> "none", res |-> res]
    ELSE IF ptr = NONE THEN [exc |-> "AttributeError", res |-> <<>>]
    ELSE IF fuel = 0 THEN [exc |-> HANG, res |-> <<>>]
    ELSE LET c == IF to_key = NoKey THEN [exc |-> "none", v |-> 0]
                  ELSE compare_key(S, ptr, to_key)
         IN IF c.exc # "none" THEN [exc |-> c.exc, res |-> <<>>]
            ELSE IF to_key # NoKey /\ c.v > 0 THEN [exc |-> "none", res |-> res]
            ELSE range_collect(S, to_key, S.nxt[ptr], Append(res, ptr), fuel - 1)

\* a range query without the test of its arguments
unchecked_key_range(S, from_key, to_key) ==
    range_collect(S, to_key, S.nxt[HEAD], <<>>, Fuel)

\* FileCacheLinkedList.query_by_key_range
query_by_key_range(S, from_key, to_key) ==
    IF from_key = NoKey /\ to_key = NoKey THEN [exc |-> "ValueError", res |-> <<>>]
    ELSE LET start ==
                 IF from_key = NoKey THEN [exc |-> "none", ptr |-> S.nxt[HEAD]]
                 ELSE IF from_key \in DOMAIN S.kv
                      THEN [exc |-> "none", ptr |-> S.kv[from_key]]
                      ELSE range_seek(S, from_key, S.nxt[HEAD], Fuel)
         IN IF start.exc # "none" THEN [exc |-> start.exc, res |-> <<>>]
            ELSE range_collect(S, to_key, start.ptr, <<>>, Fuel)

----------------------------------------------------------------------------
(* Bulk operations *)

\* the while loop of clear_cache: ptr.next is read after delete(ptr) reset it
RECURSIVE clear_loop(_, _, _)
clear_loop(S, ptr, fuel) ==
    IF ptr = TAIL THEN [S |-> S, exc |-> "none"]
    ELSE IF fuel = 0 THEN [S |-> S, exc |-> HANG]
    ELSE The({IF d.exc # "none" THEN d
              ELSE clear_loop(d.S, d.S.nxt[ptr], fuel - 1)
              : d \in {delete(S, ptr)}})

\* FileCacheLinkedList.clear_cache
clear_cache(S) == clear_loop(S, S.nxt[HEAD], Fuel)

\* FileCacheLinkedList.init_cache over the files os.walk yields, in order
RECURSIVE init_cache(_, _)
init_cache(S, files) ==
    IF files = <<>> THEN [S |-> S, exc |-> "none"]
    ELSE The({The({IF i.exc # "none" THEN i ELSE init_cache(i.S, Tail(files))
                   : i \in {insert(n.S, n.fc)}})
              : n \in {new_file_context(S, Head(files))}})

----------------------------------------------------------------------------
(* The reconciler: FileCacheManager *)

\* for fcont in res: if fcont is not None: self._file_cache.delete(fcont)
RECURSIVE delete_each(_, _)
delete_each(S, res) ==
    IF res = <<>> THEN [S |-> S, exc |-> "none"]
    ELSE The({IF d.exc # "none" THEN d ELSE delete_each(d.S, Tail(res))
              : d \in {IF Head(res) = NONE THEN [S |-> S, exc |-> "none"]
                       ELSE delete(S, Head(res))}})

\* for old_fcont in res: self._file_cache.replace(old_fcont, new_fcont)
RECURSIVE replace_each(_, _, _)
replace_each(S, res, new) ==
    IF res = <<>> THEN [S |-> S, exc |-> "none"]
    ELSE The({IF r.exc # "none" THEN r ELSE replace_each(r.S, Tail(res), new)
              : r \in {replace(S, Head(res), new)}})

\* FileCacheManager._process_created_event
process_created_event(S, event) ==
    IF event.is_directory THEN [S |-> S, exc |-> "none"]
    ELSE The({IF q.exc # "none" THEN [S |-> S, exc |-> q.exc]
              ELSE IF Len(q.res) # 0 THEN [S |-> S, exc |-> "none"]
              ELSE The({insert(n.S, n.fc)
                        : n \in {new_file_context(S, event.src_path)}})
              : q \in {query_by_path(S, event.src_path, FALSE, NoPattern)}})

\* FileCacheManager._process_deleted_event
process_deleted_event(S, event) ==
    The({IF q.exc # "none" THEN [S |-> S, exc |-> q.exc]
         ELSE delete_each(S, q.res)
         : q \in {IF event.is_directory
                  THEN query_by_path(S, NoPath, TRUE, Anchored(event.src_path))
                  ELSE query_by_path(S, event.src_path, FALSE, NoPattern)}})

\* FileCacheManager._process_moved_event
process_moved_event(S, event) ==
    IF event.is_directory THEN [S |-> S, exc |-> "none"]
    ELSE The({IF q.exc # "none" THEN [S |-> S, exc |-> q.exc]
              ELSE IF Len(q.res) = 0 THEN [S |-> S, exc |-> "none"]
              ELSE The({replace_each(n.S, q.res, n.fc)
                        : n \in {new_file_context(S, event.dest_path)}})
              : q \in {query_by_path(S, event.src_path, FALSE, NoPattern)}})

\* FileCacheManager.run: caller_dict[event.event_type](event)
process_event(S, event) ==
    CASE event.event_type = "created" -> process_created_event(S, event)
      [] event.event_type = "moved"   -> process_moved_event(S, event)
      [] event.event_type = "deleted" -> process_deleted_event(S, event)
      [] OTHER -> [S |-> S, exc |-> "KeyError"]

----------------------------------------------------------------------------
(* Inputs of the cache specification *)

Str(a, b) == a \o <<SEP>> \o b
W == <<SEP, "w">>                       \* the watched directory  /w
A == Str(W, <<"a">>)                    \* a sub-directory        /w/a
Name(section, time) ==
    <<"T", "_", section, "_", "20230427", "_", time, ".", "m", "s", "d">>
F1 == Str(W, Name("1", "100000"))       \* /w/T_1_20230427_100000.msd
F2 == Str(A, Name("1", "100005"))       \* /w/a/T_1_20230427_100005.msd
F3 == Str(A, Name("2", "100000"))       \* /w/a/T_2_20230427_100000.msd
BAD == Str(W, <<"x", ".", "t", "x", "t">>)   \* /w/x.txt
REL == Str(<<"w">>, Name("1", "100002"))     \* w/T_1_20230427_100002.msd

ValidPaths == {F1, F2, F3}
FilePaths == ValidPaths \cup {BAD, REL}
DirPaths == {W, A}

\* the time stamps the valid paths carry, and one below and one above them
Stamps == {verify_file(p) : p \in ValidPaths}
KeyArgs == {NoKey} \cup {StrKey(t) : t \in Stamps} \cup {DtKey(t) : t \in Stamps}

FileSystemEvent(type, src, dest, isdir) ==
    [event_type |-> type, src_path |-> src, dest_path |-> dest,
     is_directory |-> isdir, is_synthetic |-> FALSE]
Events ==
    {FileSystemEvent("created", p, <<>>, FALSE) : p \in FilePaths}
    \cup {FileSystemEvent("created", A, <<>>, TRUE)}
    \cup {FileSystemEvent("deleted", p, <<>>, FALSE) : p \in ValidPaths}
    \cup {FileSystemEvent("deleted", p, <<>>, TRUE) : p \in DirPaths}
    \cup {FileSystemEvent("modified", F1, <<>>, FALSE)}
    \cup {FileSystemEvent("moved", p[1], p[2], FALSE) :
             p \in {<<F1, F2>>, <<F2, F1>>, <<F1, F3>>, <<F1, BAD>>}}
    \cup {FileSystemEvent("moved", A, W, TRUE)}

\* the arguments query_by_path is called with: <<file_path, regex, re_pattern>>
PathQueries ==
    {<<p, FALSE, NoPattern>> : p \in {F1, F2, REL, NoPath}}
    \cup {<<W, TRUE, NoPattern>>, <<W, TRUE, Anchored(A)>>,
          <<NoPath, TRUE, Anchored(A)>>, <<W, TRUE, Unanchored(<<"a">>)>>,
          <<W, TRUE, Unanchored(<<SEP, "a">>)>>}

\* the files an initial os.walk may list
Walks == {<<>>} \cup {<<p>> : p \in ValidPaths \cup {BAD}}
         \cup {<<p[1], p[2]>> :
                  p \in {q \in ValidPaths \X (ValidPaths \cup {BAD}) : q[1] # q[2]}}

----------------------------------------------------------------------------
(* The watcher: events, watches and the event queue *)

\* put calls the emitters make on the event queue
MaxPut == 2
\* emitter objects ever created
MaxEm == 2
\* calls the caller makes on the observer's API
MaxCalls == 3

\* FileSystemEvent.key / FileSystemMovedEvent.key
event_key(e) ==
    IF e.event_type = "moved"
    THEN <<e.event_type, e.src_path, e.dest_path, e.is_directory>>
    ELSE <<e.event_type, e.src_path, e.is_directory>>
\* FileSystemEvent.__eq__
event_eq(a, b) == event_key(a) = event_key(b)

\* ObservedWatch and its key, __eq__
ObservedWatch(path, recursive) == [path |-> path, is_recursive |-> recursive]
watch_key(w) == <<w.path, w.is_recursive>>
watch_eq(a, b) == watch_key(a) = watch_key(b)

NoEvent == FileSystemEvent("", <<>>, <<>>, FALSE)
NoWatch == ObservedWatch(<<>>, FALSE)
\* None where a queue item is expected
NoItem == [id |-> -1, stop |-> FALSE, event |-> NoEvent, watch |-> NoWatch]
\* EventDispatcher._stop_event, one object for the class
stop_event == [id |-> 0, stop |-> TRUE, event |-> NoEvent, watch |-> NoWatch]
\* the tuple (event, watch) queue_event builds; id is the tuple's identity
Entry(id, event, watch) ==
    [id |-> id, stop |-> FALSE, event |-> event, watch |-> watch]

\* item != other on queue items: tuples compare element by element, the
\* stop marker is equal to itself only
item_ne(a, b) ==
    IF a.stop \/ b.stop THEN a.id # b.id
    ELSE a.id # b.id /\ ~(event_eq(a.event, b.event) /\ watch_eq(a.watch, b.watch))

\* a plain Queue's _put, which takes every item
plain_put_accepts(tracked, item) == TRUE

\* the test of SkipRepeatsQueue._put: the item goes into the queue
put_accepts(tracked, item) == tracked = NoItem \/ item_ne(item, tracked)

\* a put that counts the item it drops as pending work
put_counting_drops(Q, item) ==
    IF put_accepts(Q.last_item, item)
    THEN [queue |-> Append(Q.queue, item), last_item |-> item,
          unfinished_tasks |-> Q.unfinished_tasks + 1]
    ELSE [Q EXCEPT !.unfinished_tasks = @ + 1]

\* Queue.put over SkipRepeatsQueue._put, on Q = [queue, last_item,
\* unfinished_tasks]; put adds one to unfinished_tasks after _put
put(Q, item) ==
    IF put_accepts(Q.last_item, item)
    THEN [queue |-> Append(Q.queue, item), last_item |-> item,
          unfinished_tasks |-> Q.unfinished_tasks + 1]
    ELSE [Q EXCEPT !.unfinished_tasks = (@ - 1) + 1]

\* a LifoQueue's _get, which hands out the newest item
lifo_get(q) == [item |-> q[Len(q)], rest |-> SubSeq(q, 1, Len(q) - 1)]

\* Queue._get: the item handed out and the items left
queue_get(q) == [item |-> Head(q), rest |-> Tail(q)]

\* a _get that leaves the tracked item as it is
plain_get(Q) ==
    The({[Q |-> [Q EXCEPT !.queue = g.rest], item |-> g.item]
         : g \in {queue_get(Q.queue)}})

\* SkipRepeatsQueue._get
get(Q) ==
    The({[Q    |-> [Q EXCEPT !.queue = g.rest,
                             !.last_item = IF g.item.id = @.id THEN NoItem ELSE @],
          item |-> g.item]
         : g \in {queue_get(Q.queue)}})

----------------------------------------------------------------------------
(* The watcher: registry, emitters, observer *)

\* a lookup that ignores the watch: the handlers of every watch
handlers_of_any_watch(H, w) == UNION {H[x] : x \in DOMAIN H}

\* self._handlers.get(watch, [])
handlers_get(H, w) == IF w \in DOMAIN H THEN H[w] ELSE {}

\* BaseObserver._add_handler_for_watch
add_handler_for_watch(H, h, w) ==
    IF w \in DOMAIN H THEN [H EXCEPT ![w] = @ \cup {h}] ELSE DictSet(H, w, {h})

\* an unschedule that leaves the handlers of the watch in place
keep_handlers_for_watch(H, w) == H

\* BaseObserver._remove_handlers_for_watch
remove_handlers_for_watch(H, w) == DictDel(H, w)

\* a schedule that builds an emitter on every call
always_new_emitter(EFW, w) == TRUE

\* the test of schedule: self._emitter_for_watch.get(watch) is None
no_emitter_for(EFW, w) == w \notin DOMAIN EFW

\* a dispatch loop that trusts its copy of the handler set
in_snapshot(H, w, h) == TRUE

\* the re-check of dispatch_events before each handler.dispatch
still_registered(H, w, h) == h \in handlers_get(H, w)

\* a WindowsApiEmitter as schedule builds it, started or not
new_emitter(w, started) ==
    [watch |-> w, stopped |-> FALSE,
     thread |-> IF started THEN "running" ELSE "new",
     handle |-> IF started THEN "open" ELSE "none",
     pc |-> "check"]

\* a stop that leaves the emitter as it is
emitter_keeps_running(E, e) == E

\* a stop that sets the flag and leaves the handle open
emitter_stop_flag_only(E, e) == [E EXCEPT ![e].stopped = TRUE]

\* BaseThread.stop on a WindowsApiEmitter: set the flag, then
\* on_thread_stop closes the handle if there is one
emitter_stop(E, e) ==
    [E EXCEPT ![e].stopped = TRUE,
              ![e].handle = IF @ = "open" THEN "closed" ELSE @]

\* the first loop of _clear_emitters: stop every emitter of the set
RECURSIVE stop_all(_, _)
stop_all(E, es) ==
    IF es = {} THEN E
    ELSE The({stop_all(emitter_stop(E, e), es \ {e}) : e \in {CHOOSE x \in es : TRUE}})

\* a stop that puts no marker on the queue
no_stop_event(Q) == Q

\* EventDispatcher.stop's put_nowait(_stop_event)
put_stop_event(Q) == put(Q, stop_event)

\* the orders in which a set may be iterated
Orders(s) ==
    {o \in [1..Cardinality(s) -> s] : \A i, j \in 1..Cardinality(s) : i # j => o[i] # o[j]}

----------------------------------------------------------------------------
(* Inputs of the watcher specification *)

WatchSet == {ObservedWatch(W, TRUE), ObservedWatch(W, FALSE)}
HandlerSet == {"h1", "h2"}
FW == Str(W, <<"f">>)                         \* /w/f
EvCreated == FileSystemEvent("created", FW, <<>>, FALSE)
EvDeleted == FileSystemEvent("deleted", FW, <<>>, FALSE)
NativeEvents == {EvCreated, EvDeleted}
\* DirDeletedEvent(self.watch.path)
DirDeletedEvent(path) == FileSystemEvent("deleted", path, <<>>, TRUE)

----------------------------------------------------------------------------
(* The watcher specification.  Threads: the caller of the observer's API   *)
(* (user), the observer thread (obs) and one thread per emitter (em).      *)
(* The caller calls start() and stop() at most once each.                   *)

QS == [queue |-> event_queue, last_item |-> last_item,
       unfinished_tasks |-> unfinished_tasks]
Registry == [watches |-> watches, handlers |-> handlers, emitters |-> emitters,
             emitter_for_watch |-> emitter_for_watch]
QueueIds == {event_queue[i].id : i \in DOMAIN event_queue}

queueVars == <<event_queue, last_item, unfinished_tasks, nput, lastput>>
regVars == <<watches, handlers, emitters, emitter_for_watch>>
logVars == <<delivered, stale, orphan>>

NoCall == [op |-> "none", by |-> "user", handler |-> "", watch |-> NoWatch,
           emitter |-> 0, exc |-> "none", done |-> TRUE, pre |-> <<>>]
NoPut == [val |-> NoItem, rep |-> -1, again |-> FALSE]

WatcherInit ==
    /\ event_queue = <<>>
    /\ last_item = NoItem
    /\ unfinished_tasks = 0
    /\ nput = 0
    /\ lastput = NoPut
    /\ watches = {}
    /\ handlers = <<>>
    /\ emitters = {}
    /\ emitter_for_watch = <<>>
    /\ em = <<>>
    /\ obs = [thread |-> "new", start_called |-> FALSE, stopped |-> FALSE,
              pc |-> "check", entry |-> NoItem, snapshot |-> <<>>, idx |-> 0,
              watch |-> NoWatch, emitter |-> 0]
    /\ lock = "free"
    /\ user = [pc |-> "idle", watch |-> NoWatch, emitter |-> 0, ncalls |-> 0]
    /\ call = NoCall
    /\ delivered = <<>>
    /\ stale = {}
    /\ orphan = {}

\* the queue after put(item), and the record of the put
Enqueue(item) ==
    \E Q \in {put(QS, item)} :
        /\ event_queue' = Q.queue
        /\ last_item' = Q.last_item
        /\ unfinished_tasks' = Q.unfinished_tasks
        /\ lastput' = [val   |-> item,
                       rep   |-> IF Len(Q.queue) > Len(event_queue)
                                 THEN item.id ELSE last_item.id,
                       again |-> /\ lastput.rep \in QueueIds
                                 /\ ~item.stop /\ ~lastput.val.stop
                                 /\ item.event = lastput.val.event
                                 /\ item.watch = lastput.val.watch]

\* the registry a call leaves
SetRegistry(R) ==
    /\ watches' = R.watches
    /\ handlers' = R.handlers
    /\ emitters' = R.emitters
    /\ emitter_for_watch' = R.emitter_for_watch

\* the record of a call that ran to its end in one step
Called(op, by, h, w, e, exc) ==
    call' = [op |-> op, by |-> by, handler |-> h, watch |-> w, emitter |-> e,
             exc |-> exc, done |-> TRUE,
             pre |-> IF op = "schedule" THEN Registry ELSE <<>>]

\* the caller is free to make a call, and then has made it
CanCall == user.pc = "idle" /\ user.ncalls < MaxCalls
Idle == [user EXCEPT !.pc = "idle", !.watch = NoWatch, !.emitter = 0]
Calling == [user EXCEPT !.ncalls = @ + 1]

\* a handler is registered on w: the items of w are no longer items of a
\* watch without handlers
Registered(w) == orphan' = {o \in orphan : o.watch # w}

\* unschedule(w) returned: the items queued for w are stale
Unscheduled(w) ==
    \E items \in {{[id |-> event_queue[k].id, watch |-> w] :
                      k \in {j \in DOMAIN event_queue :
                                ~event_queue[j].stop /\ event_queue[j].watch = w}}} :
        /\ stale' = stale \cup items
        /\ orphan' = orphan \cup items

----------------------------------------------------------------------------
(* The cache specification: every action is one whole call, made under the *)
(* cache lock by the one thread that owns the cache.                        *)

St == [ctx |-> ctx, nxt |-> nxt, prv |-> prv, kv |-> kv_store]

NoArgs == [path |-> <<>>, regex |-> FALSE, pat |-> NoPattern, from |-> NoKey,
           to |-> NoKey, node |-> NONE, node2 |-> NONE, files |-> <<>>,
           event |-> FileSystemEvent("", <<>>, <<>>, FALSE)]

\* a call that never returns keeps its thread for ever
Alive == last.exc # HANG

\* the effect of a call: the cache it leaves, and the record of the call
Returns(op, args, S, exc, res) ==
    /\ ctx' = S.ctx
    /\ nxt' = S.nxt
    /\ prv' = S.prv
    /\ kv_store' = S.kv
    /\ pre' = St
    /\ last' = [op |-> op, args |-> args, exc |-> exc, res |-> res]
    /\ UNCHANGED <<watchVars, lockVars, emitVars>>

\* an object no node, sentinel or index entry refers to
Referenced(S, n) ==
    \/ S.nxt[n] # NONE \/ S.prv[n] # NONE
    \/ \E m \in Nodes : S.nxt[m] = n \/ S.prv[m] = n
    \/ \E k \in DOMAIN S.kv : S.kv[k] = n

\* Python frees the objects a call created and left unreferenced: the
\* arena is cut back to keep objects, dropping trailing unreferenced ones
RECURSIVE Collect(_, _)
Collect(S, keep) ==
    IF Len(S.ctx) > keep /\ ~Referenced(S, Len(S.ctx))
    THEN The({Collect(S1, keep)
              : S1 \in {[S EXCEPT !.ctx = SubSeq(@, 1, Len(@) - 1)]}})
    ELSE S

\* a thread that is in no call on the cache
NoThread == [pc |-> "idle", step |-> 0, node |-> NONE, prev |-> NONE,
             ptr |-> NONE, exc |-> "none"]
NoQuery == [pc |-> "idle", op |-> "none", path |-> <<>>, from |-> NoKey,
            to |-> NoKey, ptr |-> NONE, res |-> <<>>, exc |-> "none",
            snap |-> <<>>]

\* self._lock = threading.RLock(), and no thread in a call
LockInit ==
    /\ cache_lock = "free"
    /\ reconciler = NoThread
    /\ client = NoQuery

\* a WinAPINativeEvent: the action and the name relative to the watched path
WinAPINativeEvent(action, src_path) == [action |-> action, src_path |-> src_path]
NoRecord == WinAPINativeEvent("none", <<>>)
\* no emitter thread is in queue_events
NoFrame == [events |-> <<>>, event |-> NoRecord, isdir |-> FALSE, walk |-> <<>>,
            to_queue |-> <<>>, last_renamed_src_path |-> <<>>, polls |-> 0,
            error |-> "none", deleted |-> FALSE, exc |-> "none"]
FrameInit ==
    /\ winapi = NoFrame
    /\ reported = <<>>
    /\ emitted = <<>>

CacheInit ==
    /\ ctx = EmptyCache.ctx
    /\ nxt = EmptyCache.nxt
    /\ prv = EmptyCache.prv
    /\ kv_store = EmptyCache.kv
    /\ pre = EmptyCache
    /\ last = [op |-> "new", args |-> NoArgs, exc |-> "none", res |-> <<>>]
    /\ hist = <<>>
    /\ pure = TRUE
    /\ manager = "new"

\* insert(new_file_context(p)) for a conforming p
Insert(p) ==
    /\ Alive /\ Len(ctx) < MaxCtx
    /\ \E n \in {new_file_context(St, p)} : \E r \in {insert(n.S, n.fc)} :
          /\ Returns("insert", [NoArgs EXCEPT !.path = p, !.node = n.fc],
                     r.S, r.exc, <<>>)
          /\ hist' = IF pure THEN Append(hist, n.fc) ELSE hist
    /\ UNCHANGED <<pure, manager>>

\* insert(None)
InsertNone ==
    /\ Alive
    /\ \E r \in {insert(St, NONE)} :
          Returns("insert", NoArgs, r.S, r.exc, <<>>)
    /\ pure' = FALSE
    /\ hist' = <<>>
    /\ UNCHANGED manager

\* insert(FileContextMSD(p)): a record object built by the constructor
\* alone, which verify_file never saw
InsertUnverified(p) ==
    /\ Alive /\ Len(ctx) < MaxCtx
    /\ \E n \in {raw_file_context(St, p)} : \E r \in {insert(n.S, n.fc)} :
          Returns("insert", [NoArgs EXCEPT !.path = p, !.node = n.fc],
                  r.S, r.exc, <<>>)
    /\ pure' = FALSE
    /\ hist' = <<>>
    /\ UNCHANGED manager

\* delete(fc) for an object the caller holds
Delete(fc) ==
    /\ Alive
    /\ \E r \in {delete(St, fc)} :
          Returns("delete", [NoArgs EXCEPT !.node = fc], r.S, r.exc, <<>>)
    /\ pure' = FALSE
    /\ hist' = <<>>
    /\ UNCHANGED manager

\* replace(old, new_file_context(p))
Replace(old, p) ==
    /\ Alive /\ Len(ctx) < MaxCtx
    /\ \E n \in {new_file_context(St, p)} : \E r \in {replace(n.S, old, n.fc)} :
          Returns("replace",
                  [NoArgs EXCEPT !.path = p, !.node = old, !.node2 = n.fc],
                  r.S, r.exc, <<>>)
    /\ pure' = FALSE
    /\ hist' = <<>>
    /\ UNCHANGED manager

QueryByPath(path, regex, pat) ==
    /\ Alive
    /\ \E q \in {query_by_path(St, path, regex, pat)} :
          Returns("query_by_path",
                  [NoArgs EXCEPT !.path = path, !.regex = regex, !.pat = pat],
                  St, q.exc, q.res)
    /\ UNCHANGED <<hist, pure, manager>>

QueryByKeyRange(from_key, to_key) ==
    /\ Alive
    /\ \E q \in {query_by_key_range(St, from_key, to_key)} :
          Returns("query_by_key_range",
                  [NoArgs EXCEPT !.from = from_key, !.to = to_key],
                  St, q.exc, q.res)
    /\ UNCHANGED <<hist, pure, manager>>

ClearCache ==
    /\ Alive
    /\ \E r \in {clear_cache(St)} :
          Returns("clear_cache", NoArgs, r.S, r.exc, <<>>)
    /\ pure' = FALSE
    /\ hist' = <<>>
    /\ UNCHANGED manager

\* FileCacheManager.run starts with init_cache() on the new cache
InitCache(files) ==
    /\ Alive /\ manager = "new" /\ Len(ctx) + Len(files) <= MaxCtx
    /\ \E r \in {init_cache(St, files)} : \E S \in {Collect(r.S, Len(ctx))} :
          /\ Returns("init_cache", [NoArgs EXCEPT !.files = files],
                     S, r.exc, <<>>)
          /\ manager' = IF r.exc = "none" THEN "running" ELSE "dead"
    /\ pure' = FALSE
    /\ hist' = <<>>

\* FileCacheManager.run: one event taken from its queue and handled; an
\* exception leaves run() and ends the thread
OnEvent(event) ==
    /\ Alive /\ manager = "running" /\ Len(ctx) < MaxCtx
    /\ \E r \in {process_event(St, event)} : \E S \in {Collect(r.S, Len(ctx))} :
          /\ Returns("event", [NoArgs EXCEPT !.event = event],
                     S, r.exc, <<>>)
          /\ manager' = IF r.exc = "none" THEN "running" ELSE "dead"
    /\ pure' = FALSE
    /\ hist' = <<>>

CacheNext ==
    \/ \E p \in ValidPaths : Insert(p)
    \/ InsertNone
    \/ \E p \in {F1, BAD} : InsertUnverified(p)
    \/ \E fc \in 1..Len(ctx) : Delete(fc)
    \/ \E old \in 1..Len(ctx), p \in ValidPaths : Replace(old, p)
    \/ \E q \in PathQueries : QueryByPath(q[1], q[2], q[3])
    \/ \E from_key \in KeyArgs, to_key \in KeyArgs :
          QueryByKeyRange(from_key, to_key)
    \/ ClearCache
    \/ \E files \in Walks : InitCache(files)
    \/ \E event \in Events : OnEvent(event)

\* the cache is used while the watcher is as its constructor left it
CacheSpecInit == CacheInit /\ WatcherInit /\ LockInit /\ FrameInit
CacheSpec == CacheSpecInit /\ [][CacheNext]_vars

----------------------------------------------------------------------------
(* The watcher: calls and threads *)

\* BaseObserver.schedule on the registry R and the emitter objects E;
\* alive is self.is_alive(), ok tells whether the directory can be opened
schedule(R, E, h, w, alive, ok) ==
    The({IF ~no_emitter_for(R.emitter_for_watch, w)
         THEN [R |-> [R1 EXCEPT !.watches = @ \cup {w}], E |-> E, exc |-> "none"]
         ELSE IF alive /\ ~ok
         THEN [R |-> R1, E |-> E, exc |-> "OSError"]
         ELSE [R   |-> [R1 EXCEPT !.emitter_for_watch = DictSet(@, w, Len(E) + 1),
                                  !.emitters = @ \cup {Len(E) + 1},
                                  !.watches = @ \cup {w}],
               E   |-> Append(E, new_emitter(w, alive)),
               exc |-> "none"]
         : R1 \in {[R EXCEPT !.handlers = add_handler_for_watch(@, h, w)]}})

\* BaseObserver.remove_handler_for_watch
remove_handler_for_watch(H, h, w) ==
    IF w \notin DOMAIN H \/ h \notin H[w] THEN [H |-> H, exc |-> "KeyError"]
    ELSE [H |-> [H EXCEPT ![w] = @ \ {h}], exc |-> "none"]

\* BaseObserver.unschedule up to emitter.stop() in _remove_emitter
unschedule(R, E, w) ==
    IF w \notin DOMAIN R.emitter_for_watch \/ w \notin DOMAIN R.handlers
    THEN [R |-> R, E |-> E, exc |-> "KeyError", emitter |-> 0]
    ELSE The({[R       |-> [R EXCEPT !.handlers = remove_handlers_for_watch(@, w),
                                     !.emitter_for_watch = DictDel(@, E[e].watch),
                                     !.emitters = @ \ {e}],
               E       |-> emitter_stop(E, e),
               exc     |-> "none",
               emitter |-> e]
              : e \in {R.emitter_for_watch[w]}})

\* ---- the caller of the observer's API ----

Schedule(h, w, ok) ==
    /\ CanCall /\ lock = "free"
    /\ Len(em) < MaxEm \/ w \in DOMAIN emitter_for_watch
    /\ \E r \in {schedule(Registry, em, h, w, obs.thread = "running", ok)} :
          /\ SetRegistry(r.R)
          /\ em' = r.E
          /\ Called("schedule", "user", h, w, 0, r.exc)
    /\ Registered(w)
    /\ user' = Calling
    /\ UNCHANGED <<cacheVars, lockVars, emitVars, queueVars, obs, lock, delivered, stale>>

AddHandler(h, w) ==
    /\ CanCall /\ lock = "free"
    /\ handlers' = add_handler_for_watch(handlers, h, w)
    /\ Called("add_handler_for_watch", "user", h, w, 0, "none")
    /\ Registered(w)
    /\ user' = Calling
    /\ UNCHANGED <<cacheVars, lockVars, emitVars, queueVars, watches, emitters, emitter_for_watch,
                   em, obs, lock, delivered, stale>>

RemoveHandler(h, w) ==
    /\ CanCall /\ lock = "free"
    /\ \E r \in {remove_handler_for_watch(handlers, h, w)} :
          /\ handlers' = r.H
          /\ Called("remove_handler_for_watch", "user", h, w, 0, r.exc)
    /\ user' = Calling
    /\ UNCHANGED <<cacheVars, lockVars, emitVars, queueVars, watches, emitters, emitter_for_watch,
                   em, obs, lock, logVars>>

\* unschedule(w) up to the join of the emitter thread, under the lock
UnscheduleBegin(w) ==
    /\ CanCall /\ lock = "free"
    /\ \E r \in {unschedule(Registry, em, w)} :
          /\ SetRegistry(r.R)
          /\ em' = r.E
          /\ call' = [op |-> "unschedule", by |-> "user", handler |-> "",
                      watch |-> w, emitter |-> r.emitter, exc |-> r.exc,
                      done |-> r.exc # "none", pre |-> Registry]
          /\ IF r.exc = "none"
             THEN /\ lock' = "user"
                  /\ user' = [Calling EXCEPT !.pc = "unschedule_join",
                                             !.watch = w, !.emitter = r.emitter]
             ELSE /\ user' = Calling
                  /\ UNCHANGED lock
    /\ UNCHANGED <<cacheVars, lockVars, emitVars, queueVars, obs, logVars>>

\* emitter.join() returned (at once, with RuntimeError swallowed, for a
\* thread never started); self._watches.remove(watch); the lock is released
UnscheduleEnd ==
    /\ user.pc = "unschedule_join"
    /\ em[user.emitter].thread # "running"
    /\ watches' = watches \ {user.watch}
    /\ call' = [call EXCEPT !.done = TRUE]
    /\ Unscheduled(user.watch)
    /\ lock' = "free"
    /\ user' = Idle
    /\ UNCHANGED <<cacheVars, lockVars, emitVars, queueVars, handlers, emitters, emitter_for_watch,
                   em, obs, delivered>>

\* BaseObserver.start: emitter.start() for each emitter, any of which may
\* fail to open its directory (bad), after those of begun were started;
\* then the observer thread is started
Start(bad, begun) ==
    /\ CanCall /\ obs.thread = "new" /\ ~obs.start_called
    /\ bad = 0 => begun = emitters
    /\ em' = [e \in DOMAIN em |->
                 IF e \in begun
                 THEN [em[e] EXCEPT !.thread = "running", !.handle = "open"]
                 ELSE IF e = bad THEN [em[e] EXCEPT !.stopped = TRUE]
                 ELSE em[e]]
    /\ IF bad = 0
       THEN /\ obs' = [obs EXCEPT !.thread = "running", !.start_called = TRUE]
            /\ UNCHANGED <<emitters, emitter_for_watch>>
            /\ Called("start", "user", "", NoWatch, 0, "none")
       ELSE /\ obs' = [obs EXCEPT !.start_called = TRUE]
            /\ emitters' = emitters \ {bad}
            /\ emitter_for_watch' = DictDel(emitter_for_watch, em[bad].watch)
            /\ Called("start", "user", "", NoWatch, bad, "OSError")
    /\ user' = Calling
    /\ UNCHANGED <<cacheVars, lockVars, emitVars, queueVars, watches, handlers, lock, logVars>>

\* EventDispatcher.stop: BaseThread.stop sets the flag ...
StopSignal ==
    /\ CanCall /\ ~obs.stopped
    /\ obs' = [obs EXCEPT !.stopped = TRUE]
    /\ user' = [Calling EXCEPT !.pc = "stop_lock"]
    /\ call' = [op |-> "stop", by |-> "user", handler |-> "", watch |-> NoWatch,
                emitter |-> 0, exc |-> "none", done |-> FALSE, pre |-> <<>>]
    /\ UNCHANGED <<cacheVars, lockVars, emitVars, queueVars, regVars, em, lock, logVars>>

\* ... on_thread_stop calls unschedule_all: under the lock, the handlers
\* are cleared and every emitter is stopped ...
StopUnscheduleAll ==
    /\ user.pc = "stop_lock" /\ lock = "free"
    /\ lock' = "user"
    /\ handlers' = <<>>
    /\ em' = stop_all(em, emitters)
    /\ user' = [user EXCEPT !.pc = "stop_join"]
    /\ UNCHANGED <<cacheVars, lockVars, emitVars, queueVars, watches, emitters, emitter_for_watch, obs, call,
                   logVars>>

\* ... every emitter is joined, the registry is cleared, the lock released ...
StopJoined ==
    /\ user.pc = "stop_join"
    /\ \A e \in emitters : em[e].thread # "running"
    /\ emitters' = {}
    /\ emitter_for_watch' = <<>>
    /\ watches' = {}
    /\ lock' = "free"
    /\ user' = [user EXCEPT !.pc = "stop_put"]
    /\ UNCHANGED <<cacheVars, lockVars, emitVars, queueVars, handlers, em, obs, call, logVars>>

\* ... and the stop marker is put on the queue
StopPut ==
    /\ user.pc = "stop_put"
    /\ \E Q \in {put_stop_event(QS)} :
          /\ event_queue' = Q.queue
          /\ last_item' = Q.last_item
          /\ unfinished_tasks' = Q.unfinished_tasks
    /\ lastput' = [val |-> stop_event, rep |-> 0, again |-> FALSE]
    /\ user' = Idle
    /\ call' = [call EXCEPT !.done = TRUE]
    /\ UNCHANGED <<cacheVars, lockVars, emitVars, nput, regVars, em, obs, lock, logVars>>

\* ---- the observer thread: EventDispatcher.run and dispatch_events ----

\* while self.should_keep_running()
DispCheck ==
    /\ obs.thread = "running" /\ obs.pc = "check"
    /\ obs' = IF obs.stopped THEN [obs EXCEPT !.thread = "done"]
              ELSE [obs EXCEPT !.pc = "get"]
    /\ UNCHANGED <<cacheVars, lockVars, emitVars, queueVars, regVars, em, lock, user, call, logVars>>

\* a get() made by a second consumer, while the loop over the handlers of
\* the item before is on
DispGetDuringLoop ==
    /\ obs.thread = "running" /\ obs.pc \in {"get", "loop"}
    /\ event_queue # <<>>
    /\ \E g \in {get(QS)} :
          /\ event_queue' = g.Q.queue
          /\ last_item' = g.Q.last_item
          /\ unfinished_tasks' = g.Q.unfinished_tasks
          /\ obs' = IF g.item.stop THEN [obs EXCEPT !.pc = "check"]
                    ELSE [obs EXCEPT !.pc = "acquire", !.entry = g.item]
    /\ UNCHANGED <<cacheVars, lockVars, emitVars, nput, lastput, regVars, em, lock, user, call,
                   logVars>>

\* entry = event_queue.get(block=True); the stop marker ends dispatch_events
DispGet ==
    /\ obs.thread = "running" /\ obs.pc = "get"
    /\ event_queue # <<>>
    /\ \E g \in {get(QS)} :
          /\ event_queue' = g.Q.queue
          /\ last_item' = g.Q.last_item
          /\ unfinished_tasks' = g.Q.unfinished_tasks
          /\ obs' = IF g.item.stop THEN [obs EXCEPT !.pc = "check"]
                    ELSE [obs EXCEPT !.pc = "acquire", !.entry = g.item]
    /\ UNCHANGED <<cacheVars, lockVars, emitVars, nput, lastput, regVars, em, lock, user, call,
                   logVars>>

\* the loop over the handlers entered without the lock
DispLoopUnlocked(order) ==
    /\ obs.thread = "running" /\ obs.pc = "acquire"
    /\ order \in Orders(handlers_get(handlers, obs.entry.watch))
    /\ obs' = [obs EXCEPT !.pc = "loop", !.snapshot = order, !.idx = 1]
    /\ UNCHANGED <<cacheVars, lockVars, emitVars, queueVars, regVars, em, lock, user, call, logVars>>

\* with self._lock: for handler in list(self._handlers.get(watch, []))
DispLock(order) ==
    /\ obs.thread = "running" /\ obs.pc = "acquire"
    /\ lock = "free"
    /\ order \in Orders(handlers_get(handlers, obs.entry.watch))
    /\ lock' = "disp"
    /\ obs' = [obs EXCEPT !.pc = "loop", !.snapshot = order, !.idx = 1]
    /\ UNCHANGED <<cacheVars, lockVars, emitVars, queueVars, regVars, em, user, call, logVars>>

\* one turn of the loop whose handler is no longer registered
DispSkip ==
    /\ obs.thread = "running" /\ obs.pc = "loop"
    /\ obs.idx <= Len(obs.snapshot)
    /\ ~still_registered(handlers, obs.entry.watch, obs.snapshot[obs.idx])
    /\ obs' = [obs EXCEPT !.idx = @ + 1]
    /\ UNCHANGED <<cacheVars, lockVars, emitVars, queueVars, regVars, em, lock, user, call, logVars>>

\* the record of handler.dispatch(event)
Deliver ==
    delivered' = Append(delivered, [id |-> obs.entry.id, h |-> obs.snapshot[obs.idx],
                                    watch |-> obs.entry.watch])

\* one turn of the loop: handler.dispatch(event), the handler doing nothing
\* to the observer
DispInvoke ==
    /\ obs.thread = "running" /\ obs.pc = "loop"
    /\ obs.idx <= Len(obs.snapshot)
    /\ still_registered(handlers, obs.entry.watch, obs.snapshot[obs.idx])
    /\ Deliver
    /\ obs' = [obs EXCEPT !.idx = @ + 1]
    /\ UNCHANGED <<cacheVars, lockVars, emitVars, queueVars, regVars, em, lock, user, call, stale,
                   orphan>>

\* handler.dispatch(event), the handler calling
\* remove_handler_for_watch(h, watch) on the observer (the lock is reentrant)
DispInvokeRemove(h) ==
    /\ obs.thread = "running" /\ obs.pc = "loop"
    /\ obs.idx <= Len(obs.snapshot)
    /\ still_registered(handlers, obs.entry.watch, obs.snapshot[obs.idx])
    /\ Deliver
    /\ \E r \in {remove_handler_for_watch(handlers, h, obs.entry.watch)} :
          /\ handlers' = r.H
          /\ Called("remove_handler_for_watch", "handler", h, obs.entry.watch,
                    0, r.exc)
          /\ obs' = IF r.exc = "none" THEN [obs EXCEPT !.idx = @ + 1]
                    ELSE [obs EXCEPT !.thread = "done"]
          /\ lock' = IF r.exc = "none" THEN lock ELSE "free"
    /\ UNCHANGED <<cacheVars, lockVars, emitVars, queueVars, watches, emitters, emitter_for_watch,
                   em, user, stale, orphan>>

\* handler.dispatch(event), the handler calling unschedule(watch) on the
\* observer: up to the join of the emitter thread
DispInvokeUnschedule ==
    /\ obs.thread = "running" /\ obs.pc = "loop"
    /\ obs.idx <= Len(obs.snapshot)
    /\ still_registered(handlers, obs.entry.watch, obs.snapshot[obs.idx])
    /\ Deliver
    /\ \E r \in {unschedule(Registry, em, obs.entry.watch)} :
          /\ SetRegistry(r.R)
          /\ em' = r.E
          /\ call' = [op |-> "unschedule", by |-> "handler", handler |-> "",
                      watch |-> obs.entry.watch, emitter |-> r.emitter,
                      exc |-> r.exc, done |-> r.exc # "none", pre |-> Registry]
          /\ obs' = IF r.exc = "none"
                    THEN [obs EXCEPT !.pc = "join", !.watch = obs.entry.watch,
                                     !.emitter = r.emitter]
                    ELSE [obs EXCEPT !.thread = "done"]
          /\ lock' = IF r.exc = "none" THEN lock ELSE "free"
    /\ UNCHANGED <<cacheVars, lockVars, emitVars, queueVars, user, stale, orphan>>

\* the handler's unschedule returns, and with it handler.dispatch
DispUnscheduleEnd ==
    /\ obs.thread = "running" /\ obs.pc = "join"
    /\ em[obs.emitter].thread # "running"
    /\ watches' = watches \ {obs.watch}
    /\ call' = [call EXCEPT !.done = TRUE]
    /\ Unscheduled(obs.watch)
    /\ obs' = [obs EXCEPT !.pc = "loop", !.idx = @ + 1, !.watch = NoWatch,
                          !.emitter = 0]
    /\ UNCHANGED <<cacheVars, lockVars, emitVars, queueVars, handlers, emitters, emitter_for_watch,
                   em, lock, user, delivered>>

\* the loop is over: the lock is released, event_queue.task_done(); what
\* was recorded about the item is dropped with it
DispDone ==
    /\ obs.thread = "running" /\ obs.pc = "loop"
    /\ obs.idx > Len(obs.snapshot)
    /\ lock' = "free"
    /\ IF unfinished_tasks <= 0
       THEN /\ obs' = [obs EXCEPT !.thread = "done"]
            /\ UNCHANGED unfinished_tasks
       ELSE /\ obs' = [obs EXCEPT !.pc = "check", !.entry = NoItem,
                                  !.snapshot = <<>>, !.idx = 0]
            /\ unfinished_tasks' = unfinished_tasks - 1
    /\ lastput' = IF lastput.rep = obs.entry.id THEN NoPut ELSE lastput
    /\ stale' = {o \in stale : o.id # obs.entry.id}
    /\ orphan' = {o \in orphan : o.id # obs.entry.id}
    /\ UNCHANGED <<cacheVars, lockVars, emitVars, event_queue, last_item, nput, regVars, em, user,
                   call, delivered>>

\* ---- the emitter threads: EventEmitter.run and queue_events ----

\* while self.should_keep_running()
EmitterCheck(e) ==
    /\ e \in DOMAIN em
    /\ em[e].thread = "running" /\ em[e].pc = "check"
    /\ em' = IF em[e].stopped THEN [em EXCEPT ![e].thread = "done"]
             ELSE [em EXCEPT ![e].pc = "read"]
    /\ UNCHANGED <<cacheVars, lockVars, emitVars, queueVars, regVars, obs, lock, user, call, logVars>>

\* read_events returns: a batch of records from an open handle; from a
\* closed handle the empty batch of a cancelled read, or the OSError of a
\* read started on the closed handle, which ends the thread (the third
\* outcome on a closed handle is EmitterReadClosed)
EmitterRead(e, cancelled) ==
    /\ e \in DOMAIN em
    /\ em[e].thread = "running" /\ em[e].pc = "read"
    /\ em' = IF em[e].handle = "open" THEN [em EXCEPT ![e].pc = "put"]
             ELSE IF cancelled THEN [em EXCEPT ![e].pc = "check"]
             ELSE [em EXCEPT ![e].thread = "done"]
    /\ UNCHANGED <<cacheVars, lockVars, emitVars, queueVars, regVars, obs, lock, user, call, logVars>>

\* queue_event(event) for the next record of the batch
EmitterPut(e, event) ==
    /\ e \in DOMAIN em
    /\ em[e].thread = "running" /\ em[e].pc = "put"
    /\ nput < MaxPut
    /\ nput' = nput + 1
    /\ Enqueue(Entry(nput + 1, event, em[e].watch))
    /\ UNCHANGED <<cacheVars, lockVars, emitVars, regVars, em, obs, lock, user, call, logVars>>

\* the record is removed_self: queue_event(DirDeletedEvent(watch.path)) and
\* self.stop()
EmitterRemovedSelf(e) ==
    /\ e \in DOMAIN em
    /\ em[e].thread = "running" /\ em[e].pc = "put"
    /\ nput < MaxPut
    /\ nput' = nput + 1
    /\ Enqueue(Entry(nput + 1, DirDeletedEvent(em[e].watch.path), em[e].watch))
    /\ em' = emitter_stop(em, e)
    /\ UNCHANGED <<cacheVars, lockVars, emitVars, regVars, obs, lock, user, call, logVars>>

\* a read started on the closed handle fails with an error that is no
\* cancellation and the handle resolves to no path: read_events returns the
\* one removed_self record, queue_events queues
\* DirDeletedEvent(watch.path) and calls self.stop()
EmitterReadClosed(e) ==
    /\ e \in DOMAIN em
    /\ em[e].thread = "running" /\ em[e].pc = "read"
    /\ em[e].handle = "closed"
    /\ nput < MaxPut
    /\ nput' = nput + 1
    /\ Enqueue(Entry(nput + 1, DirDeletedEvent(em[e].watch.path), em[e].watch))
    /\ em' = [emitter_stop(em, e) EXCEPT ![e].pc = "check"]
    /\ UNCHANGED <<cacheVars, lockVars, emitVars, regVars, obs, lock, user, call, logVars>>

\* the batch is exhausted
EmitterBatchEnd(e) ==
    /\ e \in DOMAIN em
    /\ em[e].thread = "running" /\ em[e].pc = "put"
    /\ em' = [em EXCEPT ![e].pc = "check"]
    /\ UNCHANGED <<cacheVars, lockVars, emitVars, queueVars, regVars, obs, lock, user, call, logVars>>

UserNext ==
    \/ \E h \in HandlerSet, w \in WatchSet, ok \in BOOLEAN : Schedule(h, w, ok)
    \/ \E h \in HandlerSet, w \in WatchSet : AddHandler(h, w)
    \/ \E h \in HandlerSet, w \in WatchSet : RemoveHandler(h, w)
    \/ \E w \in WatchSet : UnscheduleBegin(w)
    \/ \E bad \in emitters \cup {0}, begun \in SUBSET emitters :
          bad \notin begun /\ Start(bad, begun)
    \/ StopSignal

UserStep ==
    \/ UnscheduleEnd
    \/ StopUnscheduleAll
    \/ StopJoined
    \/ StopPut

DispNext ==
    \/ DispCheck
    \/ DispGet
    \/ \E order \in Orders(HandlerSet) \cup Orders({"h1"}) \cup Orders({"h2"})
                    \cup Orders({}) : DispLock(order)
    \/ DispSkip
    \/ DispInvoke
    \/ \E h \in HandlerSet : DispInvokeRemove(h)
    \/ DispInvokeUnschedule
    \/ DispUnscheduleEnd
    \/ DispDone

EmitterNext(e) ==
    \/ EmitterCheck(e)
    \/ \E cancelled \in BOOLEAN : EmitterRead(e, cancelled)
    \/ \E event \in NativeEvents : EmitterPut(e, event)
    \/ EmitterRemovedSelf(e)
    \/ EmitterReadClosed(e)
    \/ EmitterBatchEnd(e)

WatchNext ==
    \/ UserNext
    \/ UserStep
    \/ DispNext
    \/ \E e \in 1..MaxEm : EmitterNext(e)

WatchInit == WatcherInit /\ CacheInit /\ LockInit /\ FrameInit
WatchSpec == WatchInit /\ [][WatchNext]_vars

\* the steps an emitter thread takes by itself: every step but the return
\* of a read on an open handle, which waits for a change in the directory
EmitterProgress(e) ==
    EmitterNext(e) /\ ~(em[e].pc = "read" /\ em[e].handle = "open")

\* the threads keep running: a call in progress goes on, the observer thread
\* and every emitter thread take their next step; a read on an open handle
\* may block for ever
WatchFairSpec ==
    /\ WatchSpec
    /\ WF_vars(UserStep)
    /\ WF_vars(DispNext)
    /\ \A e \in 1..MaxEm : WF_vars(EmitterProgress(e))

----------------------------------------------------------------------------
(* The queue specification: the event queue alone, with producers that put *)
(* items and one consumer that gets them.                                   *)

\* put calls made on the queue by queue_event
MaxQueuePut == 3

\* EventEmitter.queue_event(event) of the emitter of watch w:
\* event_queue.put((event, watch))
QueuePut(event, w) ==
    /\ nput < MaxQueuePut
    /\ nput' = nput + 1
    /\ Enqueue(Entry(nput + 1, event, w))
    /\ UNCHANGED <<cacheVars, lockVars, emitVars, regVars, em, obs, lock, user, call, logVars>>

\* EventDispatcher.stop, called once, on an observer with nothing
\* scheduled: the flag is set and event_queue.put_nowait(_stop_event)
QueuePutStop ==
    /\ ~obs.stopped
    /\ obs' = [obs EXCEPT !.stopped = TRUE]
    /\ \E Q \in {put_stop_event(QS)} :
          /\ event_queue' = Q.queue
          /\ last_item' = Q.last_item
          /\ unfinished_tasks' = Q.unfinished_tasks
    /\ lastput' = [val |-> stop_event, rep |-> 0, again |-> FALSE]
    /\ UNCHANGED <<cacheVars, lockVars, emitVars, nput, regVars, em, lock, user, call, logVars>>

\* event_queue.get(block=True) by the consumer
QueueGet ==
    /\ event_queue # <<>>
    /\ \E g \in {get(QS)} :
          /\ event_queue' = g.Q.queue
          /\ last_item' = g.Q.last_item
          /\ unfinished_tasks' = g.Q.unfinished_tasks
    /\ UNCHANGED <<cacheVars, lockVars, emitVars, nput, lastput, regVars, em, obs, lock, user, call,
                   logVars>>

QueueNext ==
    \/ \E event \in NativeEvents, w \in WatchSet : QueuePut(event, w)
    \/ QueuePutStop
    \/ QueueGet

QueueSpec == CacheSpecInit /\ [][QueueNext]_vars

----------------------------------------------------------------------------
(* The lock specification: the cache used by two threads, the reconciler,  *)
(* which inserts and deletes records, and a client, which queries.  Every  *)
(* step is one statement that writes a field of the cache or reads a field *)
(* another thread may write.                                                *)

cacheLog == <<last, pre, hist, pure, manager>>

\* the k-th of the four pointer assignments of insert
insert_link_step(S, fc, prev, ptr, k) ==
    CASE k = 1 -> [S EXCEPT !.prv[fc] = prev]
      [] k = 2 -> [S EXCEPT !.nxt[fc] = ptr]
      [] k = 3 -> [S EXCEPT !.nxt[prev] = fc]
      [] OTHER -> [S EXCEPT !.prv[ptr] = fc]

\* the k-th of the four pointer assignments of delete
delete_step(S, fc, k) ==
    CASE k = 1 -> IF S.prv[fc] = NONE THEN [S |-> S, exc |-> "AttributeError"]
                  ELSE [S   |-> [S EXCEPT !.nxt[S.prv[fc]] = S.nxt[fc]],
                        exc |-> "none"]
      [] k = 2 -> IF S.nxt[fc] = NONE THEN [S |-> S, exc |-> "AttributeError"]
                  ELSE [S   |-> [S EXCEPT !.prv[S.nxt[fc]] = S.prv[fc]],
                        exc |-> "none"]
      [] k = 3 -> [S |-> [S EXCEPT !.nxt[fc] = NONE], exc |-> "none"]
      [] OTHER -> [S |-> [S EXCEPT !.prv[fc] = NONE], exc |-> "none"]

\* the fields of the records of a result, as they are when it is returned
fields_of(S, res) ==
    [i \in DOMAIN res |-> [path |-> PathOf(S, res[i]), ts |-> TsOf(S, res[i]),
                           next |-> S.nxt[res[i]], prev |-> S.prv[res[i]]]]

\* a query returns res or raises exc
Returned(res, exc) ==
    [client EXCEPT !.pc = "done", !.res = res, !.exc = exc, !.ptr = NONE,
                   !.snap = fields_of(St, res)]

\* insert(new_file_context(p)): the lock is taken and the place is looked
\* for; an exception of the scan leaves the with block
InsertBegin(p) ==
    /\ reconciler.pc = "idle" /\ cache_lock = "free" /\ Len(ctx) < MaxCtx
    /\ \E n \in {new_file_context(St, p)} :
       \E pos \in {insert_scan(n.S, n.fc, HEAD, n.S.nxt[HEAD], Fuel)} :
          IF pos.exc # "none"
          THEN /\ reconciler' = [NoThread EXCEPT !.exc = pos.exc]
               /\ UNCHANGED <<ctx, cache_lock>>
          ELSE /\ ctx' = n.S.ctx
               /\ cache_lock' = "reconciler"
               /\ reconciler' = [pc |-> "insert_link", step |-> 1, node |-> n.fc,
                                 prev |-> pos.prev, ptr |-> pos.ptr,
                                 exc |-> "none"]
    /\ UNCHANGED <<nxt, prv, kv_store, cacheLog, client, watchVars, emitVars>>

\* one of file_context.prev = prev, file_context.next = ptr,
\* prev.next = file_context, ptr.prev = file_context
InsertLink ==
    /\ reconciler.pc = "insert_link"
    /\ \E S \in {insert_link_step(St, reconciler.node, reconciler.prev,
                                  reconciler.ptr, reconciler.step)} :
          /\ nxt' = S.nxt
          /\ prv' = S.prv
    /\ reconciler' = IF reconciler.step = 4
                     THEN [reconciler EXCEPT !.pc = "insert_push", !.step = 0]
                     ELSE [reconciler EXCEPT !.step = @ + 1]
    /\ UNCHANGED <<ctx, kv_store, cacheLog, cache_lock, client, watchVars, emitVars>>

\* self._kv_store_push_item(file_context), and the lock is released
InsertPush ==
    /\ reconciler.pc = "insert_push"
    /\ \E r \in {kv_store_push_item(St, reconciler.node)} :
          /\ kv_store' = r.S.kv
          /\ reconciler' = [NoThread EXCEPT !.exc = r.exc]
    /\ cache_lock' = "free"
    /\ UNCHANGED <<ctx, nxt, prv, cacheLog, client, watchVars, emitVars>>

\* delete(fc) for a record object the thread holds: the lock is taken
DeleteBegin(fc) ==
    /\ reconciler.pc = "idle" /\ cache_lock = "free"
    /\ cache_lock' = "reconciler"
    /\ reconciler' = [NoThread EXCEPT !.pc = "delete_unlink", !.step = 1,
                                      !.node = fc]
    /\ UNCHANGED <<ctx, nxt, prv, kv_store, cacheLog, client, watchVars, emitVars>>

\* one of ptr.prev.next = ptr.next, ptr.next.prev = ptr.prev,
\* ptr.next = None, ptr.prev = None; an exception leaves the with block
DeleteUnlink ==
    /\ reconciler.pc = "delete_unlink"
    /\ \E r \in {delete_step(St, reconciler.node, reconciler.step)} :
          /\ nxt' = r.S.nxt
          /\ prv' = r.S.prv
          /\ IF r.exc # "none"
             THEN /\ reconciler' = [NoThread EXCEPT !.exc = r.exc]
                  /\ cache_lock' = "free"
             ELSE /\ reconciler' = IF reconciler.step = 4
                                   THEN [reconciler EXCEPT !.pc = "delete_pop",
                                                           !.step = 0]
                                   ELSE [reconciler EXCEPT !.step = @ + 1]
                  /\ UNCHANGED cache_lock
    /\ UNCHANGED <<ctx, kv_store, cacheLog, client, watchVars, emitVars>>

\* self._kv_store_pop_item(file_context), and the lock is released
DeletePop ==
    /\ reconciler.pc = "delete_pop"
    /\ \E r \in {kv_store_pop_item(St, reconciler.node)} :
          /\ kv_store' = r.S.kv
          /\ reconciler' = [NoThread EXCEPT !.exc = r.exc]
    /\ cache_lock' = "free"
    /\ UNCHANGED <<ctx, nxt, prv, cacheLog, client, watchVars, emitVars>>

\* query_by_path(path) with an absolute path: "while self._lock:" tests the
\* lock object, which is true, and takes nothing; res = list(),
\* ptr = self._head.next
PathQueryBegin(path) ==
    /\ client.pc \in {"idle", "done"}
    /\ isabs(path)
    /\ client' = [NoQuery EXCEPT !.pc = "path_scan", !.op = "query_by_path",
                                 !.path = path, !.ptr = nxt[HEAD]]
    /\ UNCHANGED <<ctx, nxt, prv, kv_store, cacheLog, cache_lock, reconciler,
                   watchVars, emitVars>>

\* one turn of the loop of query_by_path: the test of ptr, the comparison
\* of ptr.absolute_path, ptr = ptr.next; or the return
PathQueryTurn ==
    /\ client.pc = "path_scan"
    /\ client' = IF client.ptr = TAIL THEN Returned(client.res, "none")
                 ELSE IF client.ptr = NONE THEN Returned(<<>>, "AttributeError")
                 ELSE [client EXCEPT
                          !.res = IF PathOf(St, client.ptr) = client.path
                                  THEN Append(@, client.ptr) ELSE @,
                          !.ptr = nxt[client.ptr]]
    /\ UNCHANGED <<ctx, nxt, prv, kv_store, cacheLog, cache_lock, reconciler,
                   watchVars, emitVars>>

\* query_by_key_range(from_key, to_key) with one bound: the lock is taken
\* and the first record of the range is looked for; an exception leaves
\* the with block
RangeQueryBegin(from_key, to_key) ==
    /\ client.pc \in {"idle", "done"}
    /\ cache_lock = "free"
    /\ \E start \in {IF from_key = NoKey THEN [exc |-> "none", ptr |-> nxt[HEAD]]
                     ELSE IF from_key \in DOMAIN kv_store
                          THEN [exc |-> "none", ptr |-> kv_store[from_key]]
                          ELSE range_seek(St, from_key, nxt[HEAD], Fuel)} :
          IF start.exc # "none"
          THEN /\ client' = [NoQuery EXCEPT !.pc = "done",
                                            !.op = "query_by_key_range",
                                            !.from = from_key, !.to = to_key,
                                            !.exc = start.exc]
               /\ UNCHANGED cache_lock
          ELSE /\ client' = [NoQuery EXCEPT !.pc = "range_scan",
                                            !.op = "query_by_key_range",
                                            !.from = from_key, !.to = to_key,
                                            !.ptr = start.ptr]
               /\ cache_lock' = "client"
    /\ UNCHANGED <<ctx, nxt, prv, kv_store, cacheLog, reconciler, watchVars, emitVars>>

\* one turn of the second loop of query_by_key_range, or the return, which
\* releases the lock
RangeQueryTurn ==
    /\ client.pc = "range_scan"
    /\ \E c \in {IF client.ptr \in {TAIL, NONE} \/ client.to = NoKey
                 THEN [exc |-> "none", v |-> 0]
                 ELSE compare_key(St, client.ptr, client.to)} :
          client' = IF client.ptr = TAIL THEN Returned(client.res, "none")
                    ELSE IF client.ptr = NONE
                         THEN Returned(<<>>, "AttributeError")
                    ELSE IF c.exc # "none" THEN Returned(<<>>, c.exc)
                    ELSE IF c.v > 0 THEN Returned(client.res, "none")
                    ELSE [client EXCEPT !.res = Append(@, client.ptr),
                                        !.ptr = nxt[client.ptr]]
    /\ cache_lock' = IF client'.pc = "done" THEN "free" ELSE cache_lock
    /\ UNCHANGED <<ctx, nxt, prv, kv_store, cacheLog, reconciler, watchVars, emitVars>>

\* the bounds a range query is called with
RangeArgs ==
    {<<StrKey(t), NoKey>> : t \in Stamps} \cup {<<NoKey, DtKey(t)>> : t \in Stamps}

LockNext ==
    \/ \E p \in ValidPaths : InsertBegin(p)
    \/ InsertLink
    \/ InsertPush
    \/ \E fc \in 1..Len(ctx) : DeleteBegin(fc)
    \/ DeleteUnlink
    \/ DeletePop
    \/ \E path \in {F1, F2} : PathQueryBegin(path)
    \/ PathQueryTurn
    \/ \E a \in RangeArgs : RangeQueryBegin(a[1], a[2])
    \/ RangeQueryTurn

LockSpec == CacheSpecInit /\ [][LockNext]_vars

----------------------------------------------------------------------------
(* The emitter specification: one WindowsApiEmitter, scheduled and started, *)
(* which reads batches of native records and queues events for them, while *)
(* the caller may unschedule its watch.                                     *)

\* reads of the emitter that return records
MaxPoll == 2

\* os.path.join(path, name) for a relative name
join(path, name) == path \o <<SEP>> \o name

\* str.replace(old, new): every occurrence of old, left to right
RECURSIVE str_replace(_, _, _)
str_replace(string, old, new) ==
    IF Len(string) < Len(old) THEN string
    ELSE IF SubSeq(string, 1, Len(old)) = old
    THEN new \o str_replace(SubSeq(string, Len(old) + 1, Len(string)), old, new)
    ELSE <<Head(string)>> \o str_replace(Tail(string), old, new)

\* event.is_synthetic = True
Synthetic(event) == [event EXCEPT !.is_synthetic = TRUE]

\* renamed_path of generate_sub_moved_events
renamed_path(full_path, src_dir_path, dest_dir_path) ==
    IF src_dir_path # <<>> THEN str_replace(full_path, dest_dir_path, src_dir_path)
    ELSE NoPath

\* the events generate_sub_moved_events yields for one (root, directories,
\* filenames) of os.walk(dest_dir_path)
sub_moved_events(src_dir_path, dest_dir_path, t) ==
    [i \in 1..Len(t.directories) |->
        Synthetic(FileSystemEvent("moved",
            renamed_path(join(t.root, t.directories[i]), src_dir_path, dest_dir_path),
            join(t.root, t.directories[i]), TRUE))]
    \o [i \in 1..Len(t.filenames) |->
        Synthetic(FileSystemEvent("moved",
            renamed_path(join(t.root, t.filenames[i]), src_dir_path, dest_dir_path),
            join(t.root, t.filenames[i]), FALSE))]

\* generate_sub_moved_events, walk being what os.walk(dest_dir_path) lists
RECURSIVE generate_sub_moved_events(_, _, _)
generate_sub_moved_events(src_dir_path, dest_dir_path, walk) ==
    IF walk = <<>> THEN <<>>
    ELSE sub_moved_events(src_dir_path, dest_dir_path, Head(walk))
         \o generate_sub_moved_events(src_dir_path, dest_dir_path, Tail(walk))

\* the events generate_sub_created_events yields for one (root, directories,
\* filenames) of os.walk(src_dir_path)
sub_created_events(t) ==
    [i \in 1..Len(t.directories) |->
        Synthetic(FileSystemEvent("created", join(t.root, t.directories[i]), <<>>, TRUE))]
    \o [i \in 1..Len(t.filenames) |->
        Synthetic(FileSystemEvent("created", join(t.root, t.filenames[i]), <<>>, FALSE))]

\* generate_sub_created_events, walk being what os.walk(src_dir_path) lists
RECURSIVE generate_sub_created_events(_)
generate_sub_created_events(walk) ==
    IF walk = <<>> THEN <<>>
    ELSE sub_created_events(Head(walk)) \o generate_sub_created_events(Tail(walk))

\* one turn of the loop of queue_events, for the record winapi_event of the
\* watch: the events it queues, in order, and last_renamed_src_path after
\* it; isdir is os.path.isdir of the record's path, walk what os.walk lists
queue_events(watch, winapi_event, last_renamed_src_path, isdir, walk) ==
    The({CASE winapi_event.action = "renamed_old" ->
                [to_queue |-> <<>>, last_renamed_src_path |-> src_path]
           [] winapi_event.action = "renamed_new" ->
                [to_queue |->
                    IF isdir
                    THEN (IF watch.is_recursive
                          THEN generate_sub_moved_events(last_renamed_src_path,
                                                         src_path, walk)
                          ELSE <<>>)
                         \o <<FileSystemEvent("moved", last_renamed_src_path,
                                              src_path, TRUE)>>
                    ELSE <<FileSystemEvent("moved", last_renamed_src_path,
                                           src_path, FALSE)>>,
                 last_renamed_src_path |-> last_renamed_src_path]
           [] winapi_event.action = "modified" ->
                [to_queue |-> <<FileSystemEvent("modified", src_path, <<>>, isdir)>>,
                 last_renamed_src_path |-> last_renamed_src_path]
           [] winapi_event.action = "added" ->
                [to_queue |->
                    <<FileSystemEvent("created", src_path, <<>>, isdir)>>
                    \o (IF isdir /\ watch.is_recursive
                        THEN generate_sub_created_events(walk) ELSE <<>>),
                 last_renamed_src_path |-> last_renamed_src_path]
           [] winapi_event.action = "removed" ->
                [to_queue |-> <<FileSystemEvent("deleted", src_path, <<>>, FALSE)>>,
                 last_renamed_src_path |-> last_renamed_src_path]
           [] winapi_event.action = "removed_self" ->
                [to_queue |-> <<DirDeletedEvent(watch.path)>>,
                 last_renamed_src_path |-> last_renamed_src_path]
           [] OTHER ->
                [to_queue |-> <<>>, last_renamed_src_path |-> last_renamed_src_path]
         : src_path \in {join(watch.path, winapi_event.src_path)}})

\* the record _generate_observed_path_deleted_event builds
observed_path_deleted_event == WinAPINativeEvent("removed_self", <<".">>)

\* a read that turns every failure into an empty batch
read_ignoring_errors(error, batch, deleted) ==
    [events |-> batch, exc |-> "none"]

\* read_directory_changes and read_events: error is the outcome of
\* ReadDirectoryChangesW ("none", or the winerror of the OSError), batch
\* the records it wrote, deleted the result of _is_observed_path_deleted
read_directory_changes(error, batch, deleted) ==
    IF error = "none" THEN [events |-> batch, exc |-> "none"]
    ELSE IF error = "ERROR_OPERATION_ABORTED" THEN [events |-> <<>>, exc |-> "none"]
    ELSE IF deleted THEN [events |-> <<observed_path_deleted_event>>, exc |-> "none"]
    ELSE [events |-> <<>>, exc |-> "OSError"]

\* ---- inputs ----

\* the batches a read may return: a rename reported whole, its two
\* halves in two batches, a new entry, a change and a removal
Renamed(old, new) ==
    <<WinAPINativeEvent("renamed_old", old), WinAPINativeEvent("renamed_new", new)>>
Batches ==
    {Renamed(<<"c">>, <<"d">>),
     <<WinAPINativeEvent("renamed_old", <<"c">>)>>,
     <<WinAPINativeEvent("renamed_new", <<"d">>)>>,
     <<WinAPINativeEvent("added", <<"d">>)>>,
     <<WinAPINativeEvent("modified", <<"f">>), WinAPINativeEvent("removed", <<"f">>)>>}

\* what os.walk(path) may list: nothing, or a tree  path/f, path/w, path/w/d
WalkResults(path) ==
    {<<>>,
     <<[root |-> path, directories |-> << <<"w">> >>, filenames |-> << <<"f">> >>],
       [root |-> join(path, <<"w">>), directories |-> <<>>,
        filenames |-> << <<"d">> >>]>>}

\* ---- the emitter thread ----

\* winapi_events = self._read_events(); last_renamed_src_path = ""
ReadEvents(error, batch, deleted) ==
    /\ 1 \in DOMAIN em
    /\ em[1].thread = "running" /\ em[1].pc = "read"
    /\ IF em[1].handle = "open" THEN error \in {"none", "other"}
       ELSE error \in {"ERROR_OPERATION_ABORTED", "other"}
    /\ IF error = "none" THEN winapi.polls < MaxPoll /\ batch \in Batches
       ELSE batch = <<>>
    /\ error # "other" => ~deleted
    /\ \E r \in {read_directory_changes(error, batch, deleted)} :
          /\ winapi' = [events |-> r.events, event |-> NoRecord, isdir |-> FALSE,
                        walk |-> <<>>, to_queue |-> <<>>,
                        last_renamed_src_path |-> <<>>,
                        polls |-> winapi.polls + 1,
                        error |-> error, deleted |-> deleted, exc |-> r.exc]
          /\ reported' = reported \o [i \in 1..Len(r.events) |->
                                         [record |-> r.events[i],
                                          batch |-> winapi.polls + 1]]
          /\ em' = IF r.exc = "none" THEN [em EXCEPT ![1].pc = "put"]
                   ELSE [em EXCEPT ![1].thread = "done"]
    /\ UNCHANGED <<cacheVars, lockVars, queueVars, regVars, obs, lock, user, call,
                   logVars, emitted>>

\* for winapi_event in winapi_events: the next record is taken and its
\* branch of the loop body is entered
NextRecord(isdir, walk) ==
    /\ 1 \in DOMAIN em
    /\ em[1].thread = "running" /\ em[1].pc = "put"
    /\ winapi.to_queue = <<>> /\ winapi.events # <<>>
    /\ isdir => Head(winapi.events).action \in {"renamed_new", "added", "modified"}
    /\ IF /\ isdir /\ em[1].watch.is_recursive
          /\ Head(winapi.events).action \in {"renamed_new", "added"}
       THEN walk \in WalkResults(join(em[1].watch.path, Head(winapi.events).src_path))
       ELSE walk = <<>>
    /\ \E r \in {queue_events(em[1].watch, Head(winapi.events),
                              winapi.last_renamed_src_path, isdir, walk)} :
          winapi' = [winapi EXCEPT !.events = Tail(@),
                                   !.event = Head(winapi.events),
                                   !.isdir = isdir, !.walk = walk,
                                   !.to_queue = r.to_queue,
                                   !.last_renamed_src_path = r.last_renamed_src_path]
    /\ UNCHANGED <<cacheVars, lockVars, queueVars, regVars, em, obs, lock, user, call,
                   logVars, reported, emitted>>

\* self.queue_event(event) for the next event of the record; after the
\* event of a removed_self record, self.stop()
QueueEvent ==
    /\ 1 \in DOMAIN em
    /\ em[1].thread = "running" /\ em[1].pc = "put"
    /\ winapi.to_queue # <<>>
    /\ nput' = nput + 1
    /\ Enqueue(Entry(nput + 1, Head(winapi.to_queue), em[1].watch))
    /\ emitted' = Append(emitted, [event |-> Head(winapi.to_queue),
                                   by |-> Len(reported) - Len(winapi.events)])
    /\ winapi' = [winapi EXCEPT !.to_queue = Tail(@)]
    /\ em' = IF winapi.event.action = "removed_self" THEN emitter_stop(em, 1)
             ELSE em
    /\ UNCHANGED <<cacheVars, lockVars, regVars, obs, lock, user, call, logVars,
                   reported>>

\* the batch is exhausted: queue_events returns
BatchDone ==
    /\ 1 \in DOMAIN em
    /\ em[1].thread = "running" /\ em[1].pc = "put"
    /\ winapi.to_queue = <<>> /\ winapi.events = <<>>
    /\ em' = [em EXCEPT ![1].pc = "check"]
    /\ winapi' = [winapi EXCEPT !.event = NoRecord, !.isdir = FALSE, !.walk = <<>>]
    /\ UNCHANGED <<cacheVars, lockVars, queueVars, regVars, obs, lock, user, call,
                   logVars, reported, emitted>>

\* the state after observer.schedule("h1", path, recursive) and
\* observer.start(), the directory being open
EmitInit ==
    /\ CacheInit /\ LockInit /\ FrameInit
    /\ event_queue = <<>> /\ last_item = NoItem /\ unfinished_tasks = 0
    /\ nput = 0 /\ lastput = NoPut
    /\ \E w \in WatchSet :
          /\ watches = {w}
          /\ handlers = add_handler_for_watch(<<>>, "h1", w)
          /\ emitters = {1}
          /\ emitter_for_watch = DictSet(<<>>, w, 1)
          /\ em = <<new_emitter(w, TRUE)>>
    /\ obs = [thread |-> "running", start_called |-> TRUE, stopped |-> FALSE,
              pc |-> "check", entry |-> NoItem, snapshot |-> <<>>, idx |-> 0,
              watch |-> NoWatch, emitter |-> 0]
    /\ lock = "free"
    /\ user = [pc |-> "idle", watch |-> NoWatch, emitter |-> 0, ncalls |-> 2]
    /\ call = NoCall
    /\ delivered = <<>> /\ stale = {} /\ orphan = {}

\* the steps of the emitter thread that wait for nothing
EmitterStep ==
    \/ EmitterCheck(1)
    \/ \E isdir \in BOOLEAN, walk \in WalkResults(join(W, <<"d">>)) :
          NextRecord(isdir, walk)
    \/ QueueEvent
    \/ BatchDone

EmitNext ==
    \/ EmitterStep
    \/ \E error \in {"none", "ERROR_OPERATION_ABORTED", "other"},
          batch \in Batches \cup {<<>>}, deleted \in BOOLEAN :
          ReadEvents(error, batch, deleted)
    \/ \E w \in WatchSet : UnscheduleBegin(w)
    \/ UnscheduleEnd

EmitSpec == EmitInit /\ [][EmitNext]_vars

\* the emitter thread keeps running: outside its blocking read it takes
\* its next step
EmitFairSpec == EmitSpec /\ WF_vars(EmitterStep)

----------------------------------------------------------------------------
(* Reading a cache state *)

\* the records reached from head by following next, up to tail
RECURSIVE Walk(_, _, _)
Walk(S, ptr, fuel) ==
    IF ptr = TAIL \/ ptr = NONE \/ ptr = HEAD \/ fuel = 0 THEN <<>>
    ELSE <<ptr>> \o Walk(S, S.nxt[ptr], fuel - 1)
ListOf(S) == Walk(S, S.nxt[HEAD], Fuel)

\* ids put in after the last of ids whose time stamp is not greater
RECURSIVE PutInOrder(_, _, _)
PutInOrder(S, ids, n) ==
    IF ids = <<>> THEN <<n>>
    ELSE IF TsOf(S, n) < TsOf(S, Head(ids)) THEN <<n>> \o ids
    ELSE <<Head(ids)>> \o PutInOrder(S, Tail(ids), n)

\* ids in non-decreasing key order, equal keys in the order of ids
RECURSIVE KeyOrder(_, _)
KeyOrder(S, ids) ==
    IF ids = <<>> THEN <<>>
    ELSE PutInOrder(S, KeyOrder(S, SubSeq(ids, 1, Len(ids) - 1)), ids[Len(ids)])

\* path lies under directory d
IsUnder(path, d) ==
    /\ Len(path) > Len(d) + 1
    /\ SubSeq(path, 1, Len(d)) = d
    /\ path[Len(d) + 1] = SEP

\* the records of list ids whose path is path
WithPath(S, ids, path) ==
    LET Test(n) == PathOf(S, n) = path IN SelectSeq(ids, Test)

----------------------------------------------------------------------------
(* Claims on the cache *)

\* C1: after any sequence of insert calls with validated records on the empty
\* cache, the range query over the whole list returns every inserted record,
\* in non-decreasing key order, equal keys in insertion order.  The query is
\* taken as the scan query_by_key_range makes with no lower and no upper
\* bound (head to tail).
C1_InsertOrder ==
    pure => range_collect(St, NoKey, nxt[HEAD], <<>>, Fuel)
               = [exc |-> "none", res |-> KeyOrder(St, hist)]

\* C2: on a cache built by inserts, query_by_key_range(from, to) with at
\* least one bound returns exactly the records with from <= key <= to, in
\* list order.
C2_RangeExact ==
    (/\ last.op = "query_by_key_range" /\ pure
     /\ ~(last.args.from = NoKey /\ last.args.to = NoKey))
    => LET InRange(n) ==
               /\ last.args.from = NoKey \/ last.args.from.v <= TsOf(St, n)
               /\ last.args.to = NoKey \/ TsOf(St, n) <= last.args.to.v
       IN /\ last.exc = "none"
          /\ last.res = SelectSeq(KeyOrder(St, hist), InRange)

\* C3: from any cache state, a Created{isDir=false} event for a conforming
\* absolute path leaves exactly one record for that path, and when the path
\* already had a record (a repeated event) it leaves the list and the index
\* unchanged.
C3_CreateIdempotent ==
    (/\ last.op = "event"
     /\ last.args.event.event_type = "created"
     /\ ~last.args.event.is_directory
     /\ isabs(last.args.event.src_path)
     /\ verify_file(last.args.event.src_path) # NoTs)
    => /\ Len(WithPath(St, ListOf(St), last.args.event.src_path)) = 1
       /\ WithPath(pre, ListOf(pre), last.args.event.src_path) # <<>>
             => ListOf(St) = ListOf(pre) /\ kv_store = pre.kv

\* C4: one Deleted{isDir=true} event for directory D removes every record
\* whose path lies under D from the list and the index, and keeps every
\* other record.
C4_DirDeleteCascades ==
    (/\ last.op = "event"
     /\ last.args.event.event_type = "deleted"
     /\ last.args.event.is_directory)
    => LET Kept(n) == ~IsUnder(PathOf(pre, n), last.args.event.src_path)
       IN /\ ListOf(St) = SelectSeq(ListOf(pre), Kept)
          /\ \A k \in DOMAIN kv_store : Kept(kv_store[k])

----------------------------------------------------------------------------
(* Claims on the watcher *)

\* the handler.dispatch calls made for item id on handler h
Deliveries(id, h) ==
    {i \in DOMAIN delivered : delivered[i].id = id /\ delivered[i].h = h}

\* the copies of the last put item that wait in the queue or are being
\* dispatched
Copies ==
    {k \in DOMAIN event_queue :
        /\ ~event_queue[k].stop
        /\ event_queue[k].event = lastput.val.event
        /\ event_queue[k].watch = lastput.val.watch
        /\ event_queue[k].id \in {lastput.rep, lastput.val.id}}

\* C5: when an item (event, watch) is put whose structural equal was the
\* put before it and still waits in the queue, the second put adds nothing:
\* one copy is in the queue or in dispatch, the second tuple is never handed
\* to the consumer, and no handler gets the item twice.
C5_DedupOnce ==
    lastput.again =>
       /\ lastput.val.id # lastput.rep
       /\ lastput.val.id \notin QueueIds
       /\ obs.entry.id # lastput.val.id
       /\ \A i \in DOMAIN delivered : delivered[i].id # lastput.val.id
       /\ Cardinality(Copies) + (IF obs.entry.id = lastput.rep THEN 1 ELSE 0) = 1
       /\ \A h \in HandlerSet : Cardinality(Deliveries(lastput.rep, h)) <= 1
C5_DedupOnce_Witness ==
    /\ lastput.again
    /\ \E h \in HandlerSet : Deliveries(lastput.rep, h) # {}

\* C6: the registry holds exactly one emitter per watch and
\* emitter_for_watch names it; a schedule that returned has left an emitter
\* for its watch and its handler registered; on a watch that had an emitter
\* it has left the emitters as they were and only added the handler; on a
\* watch that had none it has added one emitter.
C6_OneEmitterPerWatch ==
    /\ \A e1, e2 \in emitters : em[e1].watch = em[e2].watch => e1 = e2
    /\ \A w \in DOMAIN emitter_for_watch :
          /\ emitter_for_watch[w] \in emitters
          /\ em[emitter_for_watch[w]].watch = w
    /\ \A e \in emitters : em[e].watch \in DOMAIN emitter_for_watch
    /\ (call.op = "schedule" /\ call.exc = "none") =>
          /\ call.watch \in DOMAIN emitter_for_watch
          /\ call.handler \in handlers_get(handlers, call.watch)
          /\ IF call.watch \in DOMAIN call.pre.emitter_for_watch
             THEN /\ emitters = call.pre.emitters
                  /\ emitter_for_watch = call.pre.emitter_for_watch
                  /\ handlers = add_handler_for_watch(call.pre.handlers,
                                                      call.handler, call.watch)
             ELSE /\ Cardinality(emitters) = Cardinality(call.pre.emitters) + 1
                  /\ emitter_for_watch[call.watch] \notin call.pre.emitters
C6_OneEmitterPerWatch_Witness ==
    /\ call.op = "schedule" /\ call.exc = "none"
    /\ call.watch \in DOMAIN call.pre.emitter_for_watch
    /\ DOMAIN emitter_for_watch = WatchSet
    /\ Cardinality(emitters) = 2

\* C7: every handler.dispatch the dispatcher makes is made on a handler
\* that is registered for the watch of the event at that moment: a handler
\* taken off by remove_handler_for_watch or unschedule, also from inside a
\* handler during the dispatch of the same event, is not invoked.
C7_RemovedNeverInvoked ==
    [][delivered' # delivered =>
          /\ Len(delivered') = Len(delivered) + 1
          /\ SubSeq(delivered', 1, Len(delivered)) = delivered
          /\ delivered'[Len(delivered')].h
                \in handlers_get(handlers, delivered'[Len(delivered')].watch)]_vars
\* a handler took another one off during the dispatch of an event, and the
\* loop went past the other one without a call
C7_RemovedNeverInvoked_Witness ==
    /\ obs.thread = "running" /\ obs.pc = "loop"
    /\ call.op = "remove_handler_for_watch" /\ call.by = "handler"
    /\ call.exc = "none"
    /\ \E k \in 1..(obs.idx - 1) :
          /\ k <= Len(obs.snapshot)
          /\ obs.snapshot[k] = call.handler
          /\ Deliveries(obs.entry.id, call.handler) = {}

\* C8: once stop() was called on a running observer its thread ends, and
\* when stop() has returned every emitter is stopped with its thread not
\* running and the registry (watches, handlers, emitters, emitter_for_watch)
\* is empty.
C8_Shutdown ==
    /\ (obs.stopped /\ obs.thread = "running") ~> (obs.thread = "done")
    /\ [](call.op = "stop" /\ call.done =>
             /\ watches = {} /\ handlers = <<>>
             /\ emitters = {} /\ emitter_for_watch = <<>>
             /\ \A e \in DOMAIN em : em[e].stopped /\ em[e].thread # "running")
\* stop() has returned with an emitter joined while the observer thread
\* waits in get() for the one item of the queue, the marker
C8_Shutdown_Witness ==
    /\ call.op = "stop" /\ call.done
    /\ obs.thread = "running" /\ obs.pc = "get"
    /\ event_queue = <<stop_event>>
    /\ \E e \in DOMAIN em : em[e].thread = "done"

\* what a returned unschedule(watch) leaves in the registry
UnscheduleLeaves ==
    (call.op = "unschedule" /\ call.done /\ call.exc = "none") =>
       /\ em[call.emitter].stopped
       /\ em[call.emitter].thread # "running"
       /\ call.emitter \notin emitters
       /\ call.watch \notin DOMAIN emitter_for_watch
       /\ call.watch \notin DOMAIN handlers
       /\ call.watch \notin watches
       /\ emitters = call.pre.emitters \ {call.emitter}
       /\ watches = call.pre.watches \ {call.watch}
       /\ handlers = DictDel(call.pre.handlers, call.watch)
       /\ emitter_for_watch = DictDel(call.pre.emitter_for_watch, call.watch)

\* C9, as the claim states it: ... and no event of the watch that was in
\* the queue when unschedule returned is handed to a handler.
C9_UnscheduleDropsPending ==
    /\ UnscheduleLeaves
    /\ \A i \in DOMAIN delivered :
          [id |-> delivered[i].id, watch |-> delivered[i].watch] \notin stale

\* C9: after unschedule(watch) has returned the emitter of the watch is
\* stopped and its thread not running, the watch has no emitter and no
\* handlers in the registry, the other watches are as they were, and an
\* event of the watch that was in the queue is handed to no handler unless
\* a handler was registered for an equal watch after the unschedule.
C9_UnscheduleAmended ==
    /\ UnscheduleLeaves
    /\ \A i \in DOMAIN delivered :
          [id |-> delivered[i].id, watch |-> delivered[i].watch] \notin orphan
C9_UnscheduleAmended_Witness ==
    /\ call.op = "unschedule" /\ call.done /\ call.exc = "none"
    /\ em[call.emitter].thread = "done"
    /\ DOMAIN call.pre.handlers = WatchSet
    /\ \E o \in orphan : o.watch = call.watch

\* C10: the handlers of a watch get its events in the order of the puts
\* (ids count the puts): for one watch the calls are in put order, and the
\* queue keeps its items in put order, behind every item handed out.
C10_PerWatchOrder ==
    /\ \A i, j \in DOMAIN delivered :
          (i < j /\ delivered[i].watch = delivered[j].watch)
             => /\ delivered[i].id <= delivered[j].id
                /\ delivered[i].h = delivered[j].h
                      => delivered[i].id < delivered[j].id
    /\ \A k, l \in DOMAIN event_queue :
          (k < l /\ ~event_queue[k].stop /\ ~event_queue[l].stop)
             => event_queue[k].id < event_queue[l].id
    /\ \A i \in DOMAIN delivered, k \in DOMAIN event_queue :
          (~event_queue[k].stop /\ event_queue[k].watch = delivered[i].watch)
             => delivered[i].id < event_queue[k].id
C10_PerWatchOrder_Witness ==
    \E i, j \in DOMAIN delivered :
        /\ i < j
        /\ delivered[i].watch = delivered[j].watch
        /\ delivered[i].h = delivered[j].h
        /\ delivered[i].id < delivered[j].id

\* the handlers the registry holds for watch w, read from the variable
RegisteredOn(w) == IF w \in DOMAIN handlers THEN handlers[w] ELSE {}
\* the handlers of the loop's copy, and how many of its turns are over
Snapshot == {obs.snapshot[k] : k \in DOMAIN obs.snapshot}
TurnsDone == IF obs.pc = "join" THEN obs.idx ELSE obs.idx - 1

\* C11: the loop over a dequeued (event, watch) is made over exactly the
\* handlers registered on that watch when the lock is taken; while the
\* observer thread runs, a handler whose turn is over and that is still
\* registered on the watch got the event exactly once, a handler whose
\* turn is to come or that is not registered on the watch got none, and no
\* handler gets an item twice.
C11_Routing ==
    /\ [][(obs.pc = "acquire" /\ obs'.pc = "loop")
             => {obs'.snapshot[k] : k \in DOMAIN obs'.snapshot}
                   = RegisteredOn(obs.entry.watch)]_vars
    /\ []((obs.thread = "running" /\ obs.pc \in {"loop", "join"}) =>
             /\ RegisteredOn(obs.entry.watch) \subseteq Snapshot
             /\ \A h \in HandlerSet \ Snapshot : Deliveries(obs.entry.id, h) = {}
             /\ \A k \in DOMAIN obs.snapshot :
                   IF k > TurnsDone
                   THEN Deliveries(obs.entry.id, obs.snapshot[k]) = {}
                   ELSE obs.snapshot[k] \in RegisteredOn(obs.entry.watch)
                           => Cardinality(Deliveries(obs.entry.id,
                                                     obs.snapshot[k])) = 1)
    /\ [](\A i, j \in DOMAIN delivered :
             (delivered[i].id = delivered[j].id /\ delivered[i].h = delivered[j].h)
                => i = j)
\* the loop is over for an event of one watch: its one handler got the
\* event, the handler registered on the other watch only did not
C11_Routing_Witness ==
    /\ obs.thread = "running" /\ obs.pc = "loop"
    /\ obs.idx > Len(obs.snapshot)
    /\ \E h1, h2 \in HandlerSet, w2 \in WatchSet :
          /\ h1 # h2 /\ w2 # obs.entry.watch
          /\ RegisteredOn(obs.entry.watch) = {h1}
          /\ RegisteredOn(w2) = {h2}
          /\ Deliveries(obs.entry.id, h1) # {}
          /\ Deliveries(obs.entry.id, h2) = {}

\* ids with every old turned into new
Substitute(ids, old, new) ==
    [i \in DOMAIN ids |-> IF ids[i] = old THEN new ELSE ids[i]]

\* C12: replace(old, new) with old in the list returns with new at old's
\* place in the list, old out of the list and every other record where it
\* was.
C12_ReplaceInPlace ==
    (/\ last.op = "replace"
     /\ last.args.node2 # NONE
     /\ \E i \in DOMAIN ListOf(pre) : ListOf(pre)[i] = last.args.node)
    => /\ last.exc = "none"
       /\ ListOf(St) = Substitute(ListOf(pre), last.args.node, last.args.node2)

\* C13: every call on the cache and every event the reconciler handles
\* comes to an end, by a return or by an exception.
C13_NeverBlocks == last.exc # HANG

\* C14: clear_cache returns without an exception and leaves the two
\* sentinels linked to each other and the index empty.
C14_ClearCache ==
    last.op = "clear_cache"
    => /\ last.exc = "none"
       /\ nxt[HEAD] = TAIL /\ prv[TAIL] = HEAD
       /\ DOMAIN kv_store = {}

\* C15: a Moved event for a file whose source path has records and whose
\* destination conforms is handled without an exception; afterwards every
\* record that had the source path has given its place to a record of the
\* destination path and every other record is where it was.
C15_MovedReplaces ==
    (/\ last.op = "event"
     /\ last.args.event.event_type = "moved"
     /\ ~last.args.event.is_directory
     /\ WithPath(pre, ListOf(pre), last.args.event.src_path) # <<>>
     /\ verify_file(last.args.event.dest_path) # NoTs)
    => /\ last.exc = "none"
       /\ Len(ListOf(St)) = Len(ListOf(pre))
       /\ \A i \in DOMAIN ListOf(pre) :
             IF PathOf(pre, ListOf(pre)[i]) = last.args.event.src_path
             THEN PathOf(St, ListOf(St)[i]) = last.args.event.dest_path
             ELSE ListOf(St)[i] = ListOf(pre)[i]

\* C16: a Deleted event for the file of absolute path p is handled without
\* an exception; it takes the records of path p out of the list and leaves
\* the other records in their order with their index entries; when no
\* record has path p nothing changes.
C16_FileDeleted ==
    (/\ last.op = "event"
     /\ last.args.event.event_type = "deleted"
     /\ ~last.args.event.is_directory
     /\ isabs(last.args.event.src_path))
    => LET Kept(n) == PathOf(pre, n) # last.args.event.src_path
       IN /\ last.exc = "none"
          /\ ListOf(St) = SelectSeq(ListOf(pre), Kept)
          /\ DOMAIN kv_store \subseteq DOMAIN pre.kv
          /\ \A k \in DOMAIN pre.kv :
                Kept(pre.kv[k]) => k \in DOMAIN kv_store /\ kv_store[k] = pre.kv[k]
          /\ \A k \in DOMAIN kv_store : Kept(kv_store[k])
          /\ WithPath(pre, ListOf(pre), last.args.event.src_path) = <<>>
                => St = pre

\* C17: a file whose name does not conform is left out without an error:
\* init_cache over a walk that lists such a file returns, with a record for
\* every conforming file of the walk and none for the others; a Created
\* event for such a file is handled without an exception, changes nothing
\* and leaves the reconciler running.
C17_NonConformingSwallowed ==
    /\ (/\ last.op = "init_cache"
        /\ \E i \in DOMAIN last.args.files : verify_file(last.args.files[i]) = NoTs)
       => /\ last.exc = "none"
          /\ \A i \in DOMAIN last.args.files :
                (WithPath(St, ListOf(St), last.args.files[i]) # <<>>)
                   <=> (verify_file(last.args.files[i]) # NoTs)
    /\ (/\ last.op = "event"
        /\ last.args.event.event_type = "created"
        /\ ~last.args.event.is_directory
        /\ isabs(last.args.event.src_path)
        /\ verify_file(last.args.event.src_path) = NoTs)
       => /\ last.exc = "none"
          /\ St = pre
          /\ manager = "running"

\* C18: insert of None, or of a record object that did not pass
\* validation, raises the error of an invalid record and leaves the list
\* and the index as they were.
C18_InsertInvalid ==
    (/\ last.op = "insert"
     /\ last.args.node = NONE \/ TsOf(St, last.args.node) = NoTs)
    => /\ last.exc \in {"ValueError", "TypeError"}
       /\ nxt = pre.nxt /\ prv = pre.prv
       /\ kv_store = pre.kv

\* C19: query_by_key_range with neither from_key nor to_key raises
\* ValueError, returns nothing and leaves the cache as it was.
C19_RangeNeedsBound ==
    (/\ last.op = "query_by_key_range"
     /\ last.args.from = NoKey /\ last.args.to = NoKey)
    => /\ last.exc = "ValueError"
       /\ last.res = <<>>
       /\ St = pre
\* the call was made on a cache that holds a record
C19_RangeNeedsBound_Witness ==
    /\ last.op = "query_by_key_range"
    /\ last.args.from = NoKey /\ last.args.to = NoKey
    /\ last.exc = "ValueError"
    /\ ListOf(St) # <<>>

\* pattern pat matches string from its beginning, letter case ignored
MatchesIgnoringCase(pat, string) ==
    /\ Len(string) >= Len(pat.lit)
    /\ \A i \in 1..Len(pat.lit) :
          pat.lit[i] = "." \/ LowerTok(pat.lit[i]) = LowerTok(string[i])

\* C20: query_by_path with an absolute path returns, in list order, the
\* records whose path equals it (exact mode) or the records whose path
\* matches the pattern, letter case ignored (pattern mode), and leaves the
\* cache as it was.
C20_QueryByPath ==
    (/\ last.op = "query_by_path"
     /\ last.args.path # NoPath /\ isabs(last.args.path)
     /\ last.args.regex => ~last.args.pat.none)
    => LET Hit(n) == IF last.args.regex
                     THEN MatchesIgnoringCase(last.args.pat, PathOf(pre, n))
                     ELSE PathOf(pre, n) = last.args.path
       IN /\ last.exc = "none"
          /\ last.res = SelectSeq(ListOf(pre), Hit)
          /\ St = pre

\* C21: query_by_path raises the error of an invalid argument exactly when
\* the path it is given is not absolute or when pattern mode comes without
\* a pattern; a call in pattern mode that brings a pattern and no path, as
\* the reconciler makes it for a deleted directory, returns.
C21_QueryByPathArgs ==
    /\ (last.op = "query_by_path" /\ last.args.path # NoPath)
       => (last.exc = "ValueError"
              <=> \/ ~isabs(last.args.path)
                  \/ last.args.regex /\ last.args.pat.none)
    /\ (/\ last.op = "query_by_path"
        /\ last.args.path = NoPath
        /\ last.args.regex /\ ~last.args.pat.none)
       => last.exc = "none"

\* C24: the directory handle of an emitter is closed only after the
\* emitter's thread has ended, so the emitter thread never starts a read on
\* a closed handle.
C24_CloseAfterJoin ==
    /\ [](\A e \in DOMAIN em : em[e].handle = "closed" => em[e].thread # "running")
    /\ [][\A e \in DOMAIN em :
             (em[e].thread = "running" /\ em[e].pc = "read" /\ em'[e] # em[e])
                => em[e].handle = "open"]_vars

\* the dispatch_events calls in the log: the item ids in call order, one
\* entry per run of calls for the same item
RECURSIVE Runs(_)
Runs(log) ==
    IF log = <<>> THEN <<>>
    ELSE IF Len(log) > 1 /\ log[1].id = log[2].id THEN Runs(Tail(log))
    ELSE <<log[1].id>> \o Runs(Tail(log))

\* C25: one thread consumes the queue.  An item leaves the queue only while
\* the observer thread waits in get(), with no handler call of an earlier
\* item in progress or to come; every handler call is made for the item
\* taken last; the calls made for one item are not interleaved with the
\* calls of another; and while a handler call is in progress nothing is
\* taken from the queue and no other handler is called.
C25_SingleConsumer ==
    /\ [][Len(event_queue') < Len(event_queue)
             => /\ obs.thread = "running" /\ obs.pc = "get"
                /\ event_queue' = Tail(event_queue)
                /\ delivered' = delivered
                /\ obs'.pc = "acquire" => obs'.entry = Head(event_queue)]_vars
    /\ [][delivered' # delivered
             => /\ obs.thread = "running" /\ obs.pc = "loop"
                /\ Len(delivered') = Len(delivered) + 1
                /\ delivered'[Len(delivered')].id = obs.entry.id
                /\ event_queue' = event_queue \/ Len(event_queue') > Len(event_queue)]_vars
    /\ [][obs.pc = "join"
             => /\ delivered' = delivered
                /\ Len(event_queue') >= Len(event_queue)]_vars
    /\ [](\A i, j \in DOMAIN Runs(delivered) :
             Runs(delivered)[i] = Runs(delivered)[j] => i = j)
\* two items were dispatched one after the other, the first to two
\* handlers, and a handler call of the second is in progress
C25_SingleConsumer_Witness ==
    /\ obs.thread = "running" /\ obs.pc = "join"
    /\ Len(Runs(delivered)) = 2
    /\ Len(delivered) = 3
    /\ delivered[1].id = delivered[2].id

\* the last item that went into the queue, while it is still in the queue
Tracked ==
    IF event_queue = <<>> THEN NoItem ELSE event_queue[Len(event_queue)]
\* structural equality of two queue items
SameItem(a, b) == a.stop = b.stop /\ a.event = b.event /\ a.watch = b.watch

InList(S) == {ListOf(S)[i] : i \in DOMAIN ListOf(S)}
KeyOf(S, n) == key(S, n).k
\* the places in the list of S of the records that carry key k
PlacesOf(S, k) == {i \in DOMAIN ListOf(S) : KeyOf(S, ListOf(S)[i]) = k}
\* the first record in the list of S that carries key k, NONE without one
FirstOf(S, k) ==
    IF PlacesOf(S, k) = {} THEN NONE
    ELSE ListOf(S)[CHOOSE i \in PlacesOf(S, k) : \A j \in PlacesOf(S, k) : i <= j]

\* C26: a range query from a key that has an index entry, with no upper
\* bound, returns in list order every record of the list whose key is not
\* below that key, the records that carry the key itself included.
C26_NoSkip ==
    (/\ last.op = "query_by_key_range"
     /\ last.args.from \in DOMAIN pre.kv
     /\ last.args.to = NoKey)
    => LET AtLeast(n) == TsOf(pre, n) >= last.args.from.v
       IN /\ last.exc = "none"
          /\ last.res = SelectSeq(ListOf(pre), AtLeast)

\* C27: every index entry refers to the first record in list order that
\* carries its key; delete of the record an entry refers to leaves the
\* entry on the next record with that key, or no entry when there is none;
\* delete of another record leaves the index as it was.
C27_IndexFirst ==
    /\ \A k \in DOMAIN kv_store : kv_store[k] = FirstOf(St, k)
    /\ (last.op = "delete" /\ last.args.node \in InList(pre))
       => \A k \in DOMAIN pre.kv :
             IF pre.kv[k] = last.args.node
             THEN IF FirstOf(St, k) = NONE THEN k \notin DOMAIN kv_store
                  ELSE k \in DOMAIN kv_store /\ kv_store[k] = FirstOf(St, k)
             ELSE k \in DOMAIN kv_store /\ kv_store[k] = pre.kv[k]

\* C28: the keys of the index are the keys of the records of the list, one
\* entry per key, and every record an entry refers to is in the list.
C28_IndexConsistent ==
    /\ DOMAIN kv_store = {KeyOf(St, n) : n \in InList(St)}
    /\ \A k \in DOMAIN kv_store :
          kv_store[k] \in InList(St) /\ KeyOf(St, kv_store[k]) = k

\* C29: after every call, the ones that raise included, the list is well
\* formed: following next from head ends at tail, passes every record
\* once, and next and prev agree on every link.
C29_WellFormed ==
    LET L == ListOf(St)
        At(i) == IF i = 0 THEN HEAD ELSE IF i = Len(L) + 1 THEN TAIL ELSE L[i]
    IN /\ \A i \in 0..Len(L) : nxt[At(i)] = At(i + 1) /\ prv[At(i + 1)] = At(i)
       /\ \A i, j \in DOMAIN L : L[i] = L[j] => i = j
       /\ prv[HEAD] = NONE /\ nxt[TAIL] = NONE

\* C22: every call on the cache holds the cache lock from its first read of
\* the list to its return: no query is in its scan while a record is being
\* linked or unlinked, a thread in a scan or in a change owns the lock, and
\* no scan steps onto the None link of a record that is being unlinked.
C22_Serialized ==
    /\ client.pc \in {"path_scan", "range_scan"} => reconciler.pc = "idle"
    /\ client.pc \in {"path_scan", "range_scan"} => cache_lock = "client"
    /\ reconciler.pc # "idle" => cache_lock = "reconciler"
    /\ client.exc # "AttributeError"

\* C23: the records of a returned query result stay as they were when the
\* query returned, whatever the cache does afterwards.
C23_Snapshots ==
    (client.pc = "done" /\ client.exc = "none")
    => client.snap = fields_of(St, client.res)

\* ---- C31 ----
\* a step of the observer thread that is a successful event_queue.task_done()
TaskDoneStep == obs.pc = "loop" /\ obs'.pc = "check"
\* a step that appends an item to the queue
EnqueueStep == Len(event_queue') > Len(event_queue)

\* C31: a dropped put is not counted as pending work.  unfinished_tasks
\* starts at 0, every step changes it by the number of items the step
\* enqueues (0 for a put that is dropped, 0 for a get) minus the number of
\* task_done calls the step makes, so that it equals the items enqueued
\* minus the task_done calls; and it is never smaller than the number of
\* items in the queue.
C31_PendingWork ==
    /\ (nput = 0 /\ ~obs.stopped) => unfinished_tasks = 0
    /\ [](unfinished_tasks >= Len(event_queue))
    /\ [][unfinished_tasks' = unfinished_tasks
                              + (IF EnqueueStep THEN 1 ELSE 0)
                              - (IF TaskDoneStep THEN 1 ELSE 0)]_vars

\* a put was dropped (the item of the last put is not in the queue, an
\* older equal item stands for it) and the counter is the number of items
\* enqueued and not yet done: the one in the queue
C31_PendingWork_Witness ==
    /\ lastput.val # NoItem /\ ~lastput.val.stop
    /\ lastput.rep # lastput.val.id
    /\ Len(event_queue) = 1 /\ event_queue[1].id = lastput.rep
    /\ unfinished_tasks = 1

----------------------------------------------------------------------------
(* Claims on the emitter *)

\* the index in reported of the record queue_events is processing
Current == Len(reported) - Len(winapi.events)
\* record j has been processed: its events have been queued
Processed(j) == j < Current \/ (j = Current /\ winapi.to_queue = <<>>)
\* the events queued for record j that are not synthetic
PrimaryOf(j) ==
    {k \in DOMAIN emitted : emitted[k].by = j /\ ~emitted[k].event.is_synthetic}
\* the absolute path of record j
RecordPath(j) == join(em[1].watch.path, reported[j].record.src_path)

\* C32: a rename-old record followed by a rename-new record yields exactly
\* one Moved event, from the path of that rename-old to the path of the
\* rename-new, also when the two records come in two batches; and no Moved
\* event has a src that is not the path of its own paired rename-old.
C32_RenamePairs ==
    /\ \A j \in DOMAIN reported :
          (/\ j > 1 /\ Processed(j)
           /\ reported[j].record.action = "renamed_new"
           /\ reported[j - 1].record.action = "renamed_old")
          => /\ Cardinality(PrimaryOf(j)) = 1
             /\ \A k \in PrimaryOf(j) :
                   /\ emitted[k].event.event_type = "moved"
                   /\ emitted[k].event.src_path = RecordPath(j - 1)
                   /\ emitted[k].event.dest_path = RecordPath(j)
    /\ \A k \in DOMAIN emitted :
          (emitted[k].event.event_type = "moved" /\ ~emitted[k].event.is_synthetic)
          => /\ emitted[k].by > 1
             /\ reported[emitted[k].by - 1].record.action = "renamed_old"
             /\ emitted[k].event.src_path = RecordPath(emitted[k].by - 1)

\* ---- C33 ----
\* the events queued for record j, in the order of the queue_event calls
EventsOf(j) ==
    [k \in 1..Len(SelectSeq(emitted, LAMBDA x : x.by = j)) |->
        SelectSeq(emitted, LAMBDA x : x.by = j)[k].event]
\* the entries a walk lists, in its order: [path, isdir]
RECURSIVE Contained(_)
Contained(walk) ==
    IF walk = <<>> THEN <<>>
    ELSE [i \in 1..Len(Head(walk).directories) |->
             [path |-> join(Head(walk).root, Head(walk).directories[i]), isdir |-> TRUE]]
         \o [i \in 1..Len(Head(walk).filenames) |->
             [path |-> join(Head(walk).root, Head(walk).filenames[i]), isdir |-> FALSE]]
         \o Contained(Tail(walk))
\* path with its prefix dest replaced by src
PrefixSwap(path, dest, src) == src \o SubSeq(path, Len(dest) + 1, Len(path))
\* the record in process is a directory that was moved / created under a
\* recursive watch, and its events have been queued
DirDone(action) ==
    /\ Current >= 1 /\ Processed(Current)
    /\ winapi.event.action = action /\ winapi.isdir
    /\ em[1].watch.is_recursive

\* C33: on a recursive watch a moved directory gets one synthetic Moved per
\* contained entry, its src being the entry's path with the dest prefix
\* replaced by the src prefix, and then the primary Moved; a created
\* directory gets the primary Created and then one synthetic Created per
\* contained entry; on a non-recursive watch nothing synthetic is queued.
C33_SyntheticOrder ==
    /\ DirDone("renamed_new") =>
          EventsOf(Current) =
             [i \in 1..Len(Contained(winapi.walk)) |->
                 Synthetic(FileSystemEvent("moved",
                    PrefixSwap(Contained(winapi.walk)[i].path, RecordPath(Current),
                               winapi.last_renamed_src_path),
                    Contained(winapi.walk)[i].path,
                    Contained(winapi.walk)[i].isdir))]
             \o <<FileSystemEvent("moved", winapi.last_renamed_src_path,
                                  RecordPath(Current), TRUE)>>
    /\ DirDone("added") =>
          EventsOf(Current) =
             <<FileSystemEvent("created", RecordPath(Current), <<>>, TRUE)>>
             \o [i \in 1..Len(Contained(winapi.walk)) |->
                    Synthetic(FileSystemEvent("created", Contained(winapi.walk)[i].path,
                                              <<>>, Contained(winapi.walk)[i].isdir))]
    /\ ~em[1].watch.is_recursive =>
          \A k \in DOMAIN emitted : ~emitted[k].event.is_synthetic

\* ---- C34 ----
\* the removed_self records read so far
SelfRecords == {j \in DOMAIN reported : reported[j].record.action = "removed_self"}
\* a removed_self record has been processed
SelfDeleted == \E j \in SelfRecords : Processed(j)

\* C34: for a removed_self record the emitter queues one Deleted event of
\* the watched root, a directory, and stops; after that it queues nothing,
\* and its thread ends, without an exception.
C34_SelfDeletion ==
    /\ [](SelfDeleted =>
            /\ \A j \in SelfRecords :
                  EventsOf(j) = <<FileSystemEvent("deleted", em[1].watch.path, <<>>, TRUE)>>
            /\ Cardinality({i \in DOMAIN event_queue :
                              /\ event_queue[i].event =
                                    FileSystemEvent("deleted", em[1].watch.path, <<>>, TRUE)
                              /\ event_queue[i].watch = em[1].watch}) = 1
            /\ em[1].stopped
            /\ winapi.exc = "none")
    /\ [][SelfDeleted => (emitted' = emitted /\ event_queue' = event_queue)]_vars
    /\ SelfDeleted ~> (em[1].thread = "done")

\* the root was deleted, its one event is in the queue and the thread is over
C34_SelfDeletion_Witness ==
    /\ SelfDeleted
    /\ em[1].thread = "done"
    /\ event_queue # <<>>
    /\ event_queue[Len(event_queue)].event.is_directory
    /\ event_queue[Len(event_queue)].event.src_path = em[1].watch.path

\* ---- C35 ----
\* a step in which read_events returns or raises
ReadStep == winapi'.polls = winapi.polls + 1

\* C35: a read that fails because it was cancelled gives an empty batch and
\* no error; a read that fails otherwise while the watched path no longer
\* resolves to the handle gives the one removed_self record; any other
\* failure is raised and ends the emitter thread, which queues nothing more
\* and is not started again.
C35_PollFailure ==
    /\ [][ReadStep =>
            /\ winapi'.error = "ERROR_OPERATION_ABORTED" =>
                  /\ winapi'.events = <<>> /\ winapi'.exc = "none"
                  /\ reported' = reported
                  /\ em'[1].thread = "running"
            /\ (winapi'.error = "other" /\ winapi'.deleted) =>
                  /\ winapi'.events = <<WinAPINativeEvent("removed_self", <<".">>)>>
                  /\ winapi'.exc = "none"
                  /\ em'[1].thread = "running"
            /\ (winapi'.error = "other" /\ ~winapi'.deleted) =>
                  /\ winapi'.exc = "OSError"
                  /\ reported' = reported
                  /\ em'[1].thread = "done"]_vars
    /\ [][winapi.exc = "OSError" =>
            /\ emitted' = emitted /\ event_queue' = event_queue
            /\ em'[1].thread = "done" /\ Len(em') = 1]_vars
    /\ [][(winapi.error = "ERROR_OPERATION_ABORTED" /\ winapi.exc = "none") =>
            emitted' = emitted /\ event_queue' = event_queue]_vars

\* a read failed with an error that is no cancellation, the path still
\* resolving, after the emitter had queued events: the thread is over
C35_PollFailure_Witness ==
    /\ winapi.error = "other" /\ ~winapi.deleted
    /\ winapi.exc = "OSError"
    /\ em[1].thread = "done"
    /\ emitted # <<>>

----------------------------------------------------------------------------
(* Claims on failures *)

\* ---- C36 ----
\* a step in which schedule raised the error of get_directory_handle
ScheduleFailed ==
    /\ user'.ncalls = user.ncalls + 1
    /\ call'.op = "schedule" /\ call'.exc = "OSError"

\* C36: a schedule call that fails because the directory cannot be opened
\* raises the error to its caller and leaves the registry as it was: the
\* handlers of every watch, the watches, the emitters and the emitter
\* threads are those of before the call.
C36_ScheduleFailure ==
    [][ScheduleFailed =>
          /\ handlers' = handlers
          /\ watches' = watches
          /\ emitters' = emitters
          /\ emitter_for_watch' = emitter_for_watch
          /\ em' = em]_vars

\* ---- C37 ----
\* C37: a Modified event handled by the reconciler is handled without an
\* exception, leaves the cache as it was and leaves the reconciler running,
\* so that it handles the events that follow.
C37_ModifiedIgnored ==
    (last.op = "event" /\ last.args.event.event_type = "modified")
    => /\ last.exc = "none"
       /\ St = pre
       /\ manager = "running"

----------------------------------------------------------------------------
(* Claims on the registry lock *)

\* ---- C39 ----
\* the observer thread is inside the loop over the handlers of one event
InLoop == obs.thread = "running" /\ obs.pc \in {"loop", "join"}
\* a step in which a thread other than the observer's makes, begins or ends
\* a call of schedule, unschedule, add_handler_for_watch or
\* remove_handler_for_watch
RegistryCallStep ==
    \/ /\ user'.ncalls = user.ncalls + 1
       /\ call'.by = "user"
       /\ call'.op \in {"schedule", "unschedule", "add_handler_for_watch",
                        "remove_handler_for_watch"}
    \/ user.pc = "unschedule_join" /\ user'.pc # "unschedule_join"

\* C39: the observer thread holds the registry lock from before the first
\* to after the last handler invocation for an event, so no call of
\* schedule, unschedule, add_handler_for_watch or remove_handler_for_watch
\* by another thread takes a step in between, none is half done when the
\* loop begins, and the registry changes during the loop only through what
\* the handlers themselves call.
C39_DispatchAtomic ==
    /\ [](InLoop => lock = "disp" /\ user.pc # "unschedule_join")
    /\ [][InLoop => ~RegistryCallStep]_vars
    /\ [][(InLoop /\ Registry' # Registry) =>
             /\ user' = user
             /\ obs' # obs /\ obs.idx <= Len(obs.snapshot)
             /\ delivered' # delivered \/ obs.pc = "join"]_vars

\* a handler has been invoked for an event and the loop is not yet left,
\* while the caller of the observer is free to make a call on the registry
C39_DispatchAtomic_Witness ==
    /\ InLoop
    /\ obs.idx = 2
    /\ \E i \in DOMAIN delivered : delivered[i].id = obs.entry.id
    /\ CanCall

\* ---- C40 ----
\* a call of unschedule or stop by the caller of the observer is in progress
TearingDown ==
    user.pc \in {"unschedule_join", "stop_lock", "stop_join", "stop_put"}
\* the emitter threads a call in progress waits for in join()
Joined ==
    IF user.pc = "unschedule_join" THEN {user.emitter}
    ELSE IF user.pc = "stop_join" THEN emitters
    ELSE IF obs.thread = "running" /\ obs.pc = "join" THEN {obs.emitter}
    ELSE {}

\* C40: a call of unschedule(watch) or stop() returns, wherever the emitter
\* thread and the observer thread are when it is made, for an unschedule
\* called by a handler too: the join of the emitter threads comes to an end,
\* every emitter thread waited for having its flag set and its handle closed.
C40_TeardownReturns ==
    /\ TearingDown ~> (user.pc = "idle")
    /\ (obs.thread = "running" /\ obs.pc = "join") ~> (obs.pc # "join")
    /\ [](\A e \in Joined : em[e].stopped /\ em[e].handle # "open")

\* unschedule waits under the lock for an emitter thread that is between
\* its running-check and its read, while the observer thread waits for the
\* lock with an item it took from the queue
C40_TeardownReturns_Witness ==
    /\ user.pc = "unschedule_join"
    /\ em[user.emitter].thread = "running"
    /\ em[user.emitter].pc = "read"
    /\ obs.thread = "running" /\ obs.pc = "acquire"
    /\ lock = "user"

====
